---- MODULE Spec2Model ----
(***************************************************************************)
(* The ARX template renderer of agentrx (cli/agentrx/render.py) and the    *)
(* two callers that render at a phase (cli/agentrx/commands/prompt.py).    *)
(*                                                                         *)
(* Text is a sequence of one-character strings, so that the regular        *)
(* expressions of the source are executed character by character.  Python  *)
(* values of the context are tagged records [t, v]; Python's None is the   *)
(* record PyNone, which the source also uses as its "missing" result.      *)
(***************************************************************************)
EXTENDS Integers, Sequences, FiniteSets, TLC

VARIABLES
    text,     \* the template body handed to the operation
    data,     \* the context mapping handed to the operation
    environ,  \* os.environ, a function from names to values
    pc,       \* "ready" before the operation, "done" after it
    op,       \* the operation that ran
    out,      \* the text the operation returned (<<>> when it raised)
    exc,      \* "none", or the exception the operation left with
    args,     \* the sources handed to build_context, and the files on disk
    ret,      \* the Python value the operation returned beside or instead of text
    msg,      \* the message of the exception, <<>> when there is none
    disk      \* the file system: [files, dirs], a file being [utf8, text]

vars == <<text, data, environ, pc, op, out, exc, args, ret, msg, disk>>

Chars(s) == [i \in 1..Len(s) |-> SubSeq(s, i, i)]

----------------------------------------------------------------------------
(* Character classes of Python's re module (str patterns, ASCII part).     *)

Upper == {"A","B","C","D","E","F","G","H","I","J","K","L","M",
          "N","O","P","Q","R","S","T","U","V","W","X","Y","Z"}
Lower == {"a","b","c","d","e","f","g","h","i","j","k","l","m",
          "n","o","p","q","r","s","t","u","v","w","x","y","z"}
Digit == {"0","1","2","3","4","5","6","7","8","9"}

IsSpace(c) == c \in {" ", "\t", "\n", "\r", "\f"}
IsNameStart(c) == c \in Upper \cup Lower \cup {"_"}
IsWord(c) == c \in Upper \cup Lower \cup Digit \cup {"_"}

\* t[i..j-1]; positions are 1-based, an end position is one past the last character
Slice(t, i, j) == SubSeq(t, i, j - 1)

LitAt(t, i, lit) ==
    /\ i >= 1
    /\ i + Len(lit) - 1 <= Len(t)
    /\ Slice(t, i, i + Len(lit)) = lit

RECURSIVE SkipSpace(_, _)
SkipSpace(t, i) ==
    IF i <= Len(t) /\ IsSpace(t[i]) THEN SkipSpace(t, i + 1) ELSE i

RECURSIVE SkipWord(_, _)
SkipWord(t, i) ==
    IF i <= Len(t) /\ IsWord(t[i]) THEN SkipWord(t, i + 1) ELSE i

----------------------------------------------------------------------------
(* Environment variable expansion                                          *)

\* os.environ.get(name, default)
EnvGet(e, name, default) == IF name \in DOMAIN e THEN e[name] ELSE default

\* _ENV_BRACED_RE.match at i: the end of the match, 0 when there is none.
\* The name is t[i+2 .. end-2].
ENV_BRACED_RE(t, i) ==
    IF LitAt(t, i, <<"$", "{">>) /\ i + 2 <= Len(t) /\ IsNameStart(t[i + 2])
    THEN LET j == SkipWord(t, i + 3)
         IN  IF j <= Len(t) /\ t[j] = "}" THEN j + 1 ELSE 0
    ELSE 0

\* _ENV_BARE_RE.match at i: the end of the match, 0 when there is none.
\* The name is t[i+1 .. end-1].
ENV_BARE_RE(t, i) ==
    IF i + 1 <= Len(t) /\ t[i] = "$" /\ IsNameStart(t[i + 1])
    THEN SkipWord(t, i + 2)
    ELSE 0

\* env_sub with an unset variable expanding to the empty string
env_sub_empty(e, name, whole) == EnvGet(e, name, <<>>)

\* _sub of _expand_env: the variable's value, else the match itself
env_sub(e, name, whole) == EnvGet(e, name, whole)

RECURSIVE SubBraced(_, _, _)
SubBraced(t, i, e) ==
    IF i > Len(t) THEN <<>>
    ELSE LET j == ENV_BRACED_RE(t, i)
         IN  IF j = 0
             THEN <<t[i]>> \o SubBraced(t, i + 1, e)
             ELSE env_sub(e, Slice(t, i + 2, j - 1), Slice(t, i, j))
                  \o SubBraced(t, j, e)

RECURSIVE SubBare(_, _, _)
SubBare(t, i, e) ==
    IF i > Len(t) THEN <<>>
    ELSE LET j == ENV_BARE_RE(t, i)
         IN  IF j = 0
             THEN <<t[i]>> \o SubBare(t, i + 1, e)
             ELSE env_sub(e, Slice(t, i + 1, j), Slice(t, i, j))
                  \o SubBare(t, j, e)

\* the braced pass over the text, then the bare pass over its result
expand_env(t, e) == SubBare(SubBraced(t, 1, e), 1, e)

----------------------------------------------------------------------------
(* Python values of the context                                            *)

PyStr(s)  == [t |-> "str",  v |-> s]
PyInt(n)  == [t |-> "int",  v |-> n]
PyDict(d) == [t |-> "dict", v |-> d]   \* d: the items <<key, value>> in insertion order
PyList(l) == [t |-> "list", v |-> l]
PyNone    == [t |-> "none", v |-> <<>>]
PyBool(b) == [t |-> "bool", v |-> b]

\* key in d, d[key]
DictHas(d, key) == \E i \in 1..Len(d.v) : d.v[i][1] = key
DictGet(d, key) == d.v[CHOOSE i \in 1..Len(d.v) : d.v[i][1] = key][2]

DigitVal(c) == CHOOSE n \in 0..9 : <<"0","1","2","3","4","5","6","7","8","9">>[n + 1] = c
DigitChr(n) == <<"0","1","2","3","4","5","6","7","8","9">>[n + 1]

RECURSIVE NatStr(_)
NatStr(n) == IF n < 10 THEN <<DigitChr(n)>> ELSE NatStr(n \div 10) \o <<DigitChr(n % 10)>>

IntStr(n) == IF n < 0 THEN <<"-">> \o NatStr(0 - n) ELSE NatStr(n)

RECURSIVE py_repr(_)
RECURSIVE ReprItems(_, _)
RECURSIVE ReprElems(_, _)
\* repr(value), for strings that hold no quote and no backslash
py_repr(val) ==
    CASE val.t = "str"  -> <<"'">> \o val.v \o <<"'">>
      [] val.t = "int"  -> IntStr(val.v)
      [] val.t = "none" -> Chars("None")
      [] val.t = "bool" -> IF val.v THEN Chars("True") ELSE Chars("False")
      [] val.t = "dict" -> <<"{">> \o ReprItems(val.v, 1) \o <<"}">>
      [] val.t = "list" -> <<"[">> \o ReprElems(val.v, 1) \o <<"]">>

ReprItems(d, i) ==
    IF i > Len(d) THEN <<>>
    ELSE py_repr(PyStr(d[i][1])) \o Chars(": ") \o py_repr(d[i][2])
         \o (IF i < Len(d) THEN Chars(", ") ELSE <<>>) \o ReprItems(d, i + 1)

ReprElems(l, i) ==
    IF i > Len(l) THEN <<>>
    ELSE py_repr(l[i])
         \o (IF i < Len(l) THEN Chars(", ") ELSE <<>>) \o ReprElems(l, i + 1)

\* str(value)
py_str(val) == IF val.t = "str" THEN val.v ELSE py_repr(val)

----------------------------------------------------------------------------
(* String helpers of Python                                                *)

RECURSIVE LStrip(_, _)
LStrip(s, set) ==
    IF s # <<>> /\ Head(s) \in set THEN LStrip(Tail(s), set) ELSE s

RECURSIVE RStrip(_, _)
RStrip(s, set) ==
    IF s # <<>> /\ s[Len(s)] \in set THEN RStrip(Slice(s, 1, Len(s)), set) ELSE s

SpaceChars == {" ", "\t", "\n", "\r", "\f"}

\* s.strip()
strip(s) == RStrip(LStrip(s, SpaceChars), SpaceChars)

\* s.strip(chars): every leading and trailing character that is in chars
strip_chars(s, set) == RStrip(LStrip(s, set), set)

\* the first position >= i where c stands, Len(s) + 1 when there is none
RECURSIVE Find(_, _, _)
Find(s, c, i) == IF i > Len(s) \/ s[i] = c THEN i ELSE Find(s, c, i + 1)

\* s.split(c)
RECURSIVE split(_, _)
split(s, c) ==
    LET j == Find(s, c, 1)
    IN  IF j > Len(s) THEN <<s>>
        ELSE <<Slice(s, 1, j)>> \o split(Slice(s, j + 1, Len(s) + 1), c)

\* int(s) succeeds: an optional sign and digits (surrounding blanks are accepted)
IsIntLit(s) ==
    LET u == strip(s)
        d == IF u # <<>> /\ Head(u) \in {"+", "-"} THEN Tail(u) ELSE u
    IN  d # <<>> /\ \A i \in 1..Len(d) : d[i] \in Digit

RECURSIVE NatVal(_)
NatVal(d) == IF d = <<>> THEN 0 ELSE 10 * NatVal(Slice(d, 1, Len(d))) + DigitVal(d[Len(d)])

IntVal(s) ==
    LET u == strip(s)
    IN  IF Head(u) = "-" THEN 0 - NatVal(Tail(u))
        ELSE IF Head(u) = "+" THEN NatVal(Tail(u)) ELSE NatVal(u)

----------------------------------------------------------------------------
(* ARX variable tag resolution                                             *)

Structural == {"#", "^", "*", "@", "/"}

\* `\s*\]\]\s*/>` at e: the end of the match, 0 when there is none
TagClose(t, e) ==
    LET a == SkipSpace(t, e)
    IN  IF LitAt(t, a, <<"]", "]">>)
        THEN LET b == SkipSpace(t, a + 2)
             IN  IF LitAt(t, b, <<"/", ">">>) THEN b + 2 ELSE 0
        ELSE 0

\* the lazy group `(.*?)` (DOTALL, so over any character) from e on: the first
\* position where the rest of the pattern matches, 0 when there is none
RECURSIVE LazyGroupEnd(_, _)
LazyGroupEnd(t, e) ==
    IF e > Len(t) THEN 0
    ELSE IF TagClose(t, e) # 0 THEN e
    ELSE LazyGroupEnd(t, e + 1)

NoMatch == [ok |-> FALSE, gs |-> 0, ge |-> 0, end |-> 0]

\* _VAR_TAG_RE.match at i: group(1) is t[gs..ge-1], group(0) is t[i..end-1].
\* The blanks after `[[` are taken greedily; when the negative lookahead then
\* meets a structural character, the matcher gives one blank back, and the
\* lookahead passes on that blank.
VAR_TAG_RE(t, i) ==
    IF ~LitAt(t, i, Chars("<ARX")) THEN NoMatch
    ELSE LET w == SkipSpace(t, i + 4)
         IN  IF w = i + 4 \/ ~LitAt(t, w, <<"[", "[">>) THEN NoMatch
             ELSE LET q  == SkipSpace(t, w + 2)
                      st == q <= Len(t) /\ t[q] \in Structural
                      gs == IF st THEN q - 1 ELSE q
                  IN  IF st /\ q = w + 2 THEN NoMatch
                      ELSE LET ge == LazyGroupEnd(t, gs)
                           IN  IF ge = 0 THEN NoMatch
                               ELSE [ok |-> TRUE, gs |-> gs, ge |-> ge,
                                     end |-> TagClose(t, ge)]

\* `(.+)$` without DOTALL from u on: the end of group(2), 0 when there is none
DefaultEnd(x, u) ==
    LET v == Find(x, "\n", u)
    IN  IF v > u /\ (v = Len(x) + 1 \/ v = Len(x)) THEN v ELSE 0

\* `\s*(.+)$` after the bar: the blanks are taken greedily and given back one
\* by one until `(.+)$` matches; <<start, end>> of group(2), <<0, 0>> for none
RECURSIVE DefaultFrom(_, _, _)
DefaultFrom(x, u, low) ==
    IF u < low THEN <<0, 0>>
    ELSE IF DefaultEnd(x, u) # 0 THEN <<u, DefaultEnd(x, u)>>
    ELSE DefaultFrom(x, u - 1, low)

\* _DEFAULT_RE.match(expr): the lazy group(1) ends at g (it holds no newline),
\* blanks follow, then the bar, then group(2)
RECURSIVE DefaultSplit(_, _)
DefaultSplit(x, g) ==
    IF g > Len(x) + 1 THEN [ok |-> FALSE, key |-> <<>>, dflt |-> <<>>]
    ELSE LET s == SkipSpace(x, g)
             d == IF s <= Len(x) /\ x[s] = "|"
                  THEN DefaultFrom(x, SkipSpace(x, s + 1), s + 1)
                  ELSE <<0, 0>>
         IN  IF d[1] # 0
             THEN [ok |-> TRUE, key |-> Slice(x, 1, g), dflt |-> Slice(x, d[1], d[2])]
             ELSE IF g <= Len(x) /\ x[g] # "\n"
             THEN DefaultSplit(x, g + 1)
             ELSE [ok |-> FALSE, key |-> <<>>, dflt |-> <<>>]

DEFAULT_RE(x) == DefaultSplit(x, 1)

QuoteChars == {"\"", "'"}

\* default_raw: group(2), stripped of blanks and then of quote characters
default_raw(g2) == strip_chars(strip(g2), QuoteChars)

\* one pass of the loop of _resolve_path at node, with segment part:
\* ok is FALSE where the source returns None from inside the loop
path_step(node, part) ==
    IF node.t = "dict"
    THEN IF DictHas(node, part)
         THEN [ok |-> TRUE, node |-> DictGet(node, part)]
         ELSE [ok |-> FALSE, node |-> PyNone]
    ELSE IF node.t = "list"
    THEN IF IsIntLit(part)
         THEN LET n == IntVal(part)
                  k == IF n < 0 THEN Len(node.v) + n + 1 ELSE n + 1
              IN  IF k >= 1 /\ k <= Len(node.v)
                  THEN [ok |-> TRUE, node |-> node.v[k]]
                  ELSE [ok |-> FALSE, node |-> PyNone]      \* IndexError
         ELSE [ok |-> FALSE, node |-> PyNone]               \* ValueError
    ELSE [ok |-> FALSE, node |-> PyNone]

RECURSIVE walk_path(_, _, _)
walk_path(node, parts, i) ==
    IF i > Len(parts) THEN node
    ELSE LET r == path_step(node, parts[i])
         IN  IF r.ok THEN walk_path(r.node, parts, i + 1) ELSE PyNone

resolve_path(key, d) == walk_path(d, split(key, "."), 1)

\* the env branch of _resolve_expr: os.environ.get(env_key), else the default
resolve_env(env_key, dflt, e) ==
    IF env_key \in DOMAIN e THEN PyStr(e[env_key]) ELSE dflt

\* the context branch of _resolve_expr: a value that is not None, else the default
resolve_data(key_part, dflt, d) ==
    LET val == resolve_path(key_part, d)
    IN  IF val.t # "none" THEN PyStr(py_str(val)) ELSE dflt

\* _resolve_expr: PyStr(replacement), or PyNone when the tag is to be preserved
resolve_expr(expr, d, e) ==
    LET dm       == DEFAULT_RE(expr)
        key_part == IF dm.ok THEN strip(dm.key) ELSE strip(expr)
        dflt     == IF dm.ok THEN PyStr(default_raw(dm.dflt)) ELSE PyNone
    IN  IF LitAt(key_part, 1, Chars("env."))
        THEN resolve_env(Slice(key_part, 5, Len(key_part) + 1), dflt, e)
        ELSE resolve_data(key_part, dflt, d)

\* _sub of _render_var_tags for the match m found at i
tag_sub(t, i, m, d, e) ==
    LET resolved == resolve_expr(Slice(t, m.gs, m.ge), d, e)
    IN  IF resolved.t = "none" THEN Slice(t, i, m.end) ELSE resolved.v

\* _VAR_TAG_RE.sub(_sub, text): leftmost matches, one after the other, the
\* scan going on behind each match
\* re.sub with count=1: only the first tag of the text is substituted
RECURSIVE SubTagsOnce(_, _, _, _)
SubTagsOnce(t, i, d, e) ==
    IF i > Len(t) THEN <<>>
    ELSE LET m == VAR_TAG_RE(t, i)
         IN  IF m.ok
             THEN tag_sub(t, i, m, d, e) \o Slice(t, m.end, Len(t) + 1)
             ELSE <<t[i]>> \o SubTagsOnce(t, i + 1, d, e)

RECURSIVE SubTags(_, _, _, _)
SubTags(t, i, d, e) ==
    IF i > Len(t) THEN <<>>
    ELSE LET m == VAR_TAG_RE(t, i)
         IN  IF m.ok
             THEN tag_sub(t, i, m, d, e) \o SubTags(t, m.end, d, e)
             ELSE <<t[i]>> \o SubTags(t, i + 1, d, e)

render_var_tags(t, d, e) == SubTags(t, 1, d, e)

----------------------------------------------------------------------------
(* yaml.safe_load on the documents front matter and data files hold here:  *)
(* lines that are not indented, each a comment, a `key: value` entry of a  *)
(* block mapping, a `- item` entry of a block sequence or plain text, with *)
(* one-line lower-case scalars (plain, double-quoted, integer, boolean or  *)
(* null).  A flow                                                          *)
(* collection left open, a second `: ` in a value and a leading '@' are    *)
(* the errors these documents can hold.                                    *)

\* the first position >= i where sub stands in s, 0 when there is none
RECURSIVE FindSub(_, _, _)
FindSub(s, sub, i) ==
    IF i + Len(sub) - 1 > Len(s) THEN 0
    ELSE IF LitAt(s, i, sub) THEN i ELSE FindSub(s, sub, i + 1)

\* d.setdefault(key, val): a present key keeps its value
dict_set_keep(d, key, val) ==
    IF \E i \in 1..Len(d) : d[i][1] = key THEN d ELSE Append(d, <<key, val>>)

\* a deep merge: a mapping assigned over a mapping keeps the sub-keys it lacks
dict_set_deep(d, key, val) ==
    LET both(old) == old.t = "dict" /\ val.t = "dict"
        kept(old) == SelectSeq(old.v, LAMBDA it : \A j \in 1..Len(val.v) : val.v[j][1] # it[1])
    IN  IF \E i \in 1..Len(d) : d[i][1] = key
        THEN [i \in 1..Len(d) |->
                IF d[i][1] # key THEN d[i]
                ELSE IF both(d[i][2]) THEN <<key, PyDict(kept(d[i][2]) \o val.v)>>
                ELSE <<key, val>>]
        ELSE Append(d, <<key, val>>)

\* d[key] = val: a present key keeps its place, a new one goes last
dict_set(d, key, val) ==
    IF \E i \in 1..Len(d) : d[i][1] = key
    THEN [i \in 1..Len(d) |-> IF d[i][1] = key THEN <<key, val>> ELSE d[i]]
    ELSE Append(d, <<key, val>>)

YamlError   == [exc |-> TRUE, v |-> PyNone]
YamlValue(v) == [exc |-> FALSE, v |-> v]

yaml_is_comment(l) == strip(l) = <<>> \/ l[1] = "#"
yaml_is_seq(l)     == LitAt(l, 1, <<"-", " ">>)
yaml_has_colon(l)  == FindSub(l, <<":", " ">>, 1) # 0 \/ (l # <<>> /\ l[Len(l)] = ":")
yaml_is_map(l)     == yaml_has_colon(l) /\ ~yaml_is_seq(l)

\* a scalar that cannot stand where a value is expected
yaml_bad_value(v) ==
    yaml_has_colon(v) \/ (v # <<>> /\ v[1] \in {"[", "{", "@"})

\* an integer of YAML: an optional sign, then 0 or digits that begin with 1-9
yaml_is_int(v) ==
    /\ IsIntLit(v)
    /\ LET d == IF Head(v) \in {"+", "-"} THEN Tail(v) ELSE v
       IN  d = <<"0">> \/ d[1] # "0"

\* the value of a one-line scalar
yaml_scalar(raw) ==
    LET v == strip(raw)
    IN  IF Len(v) >= 2 /\ v[1] = "\"" /\ v[Len(v)] = "\""
        THEN PyStr(Slice(v, 2, Len(v)))
        ELSE IF v \in {<<>>, <<"~">>, Chars("null")} THEN PyNone
        ELSE IF v \in {Chars("true"), Chars("yes"), Chars("on")} THEN PyBool(TRUE)
        ELSE IF v \in {Chars("false"), Chars("no"), Chars("off")} THEN PyBool(FALSE)
        ELSE IF yaml_is_int(v) THEN PyInt(IntVal(v))
        ELSE PyStr(v)

\* the `- item` lines from line i on: [exc, items, next]
RECURSIVE yaml_seq_items(_, _, _)
yaml_seq_items(ls, i, acc) ==
    IF i > Len(ls) THEN [exc |-> FALSE, items |-> acc, next |-> i]
    ELSE IF yaml_is_comment(ls[i]) THEN yaml_seq_items(ls, i + 1, acc)
    ELSE IF ~yaml_is_seq(ls[i]) THEN [exc |-> FALSE, items |-> acc, next |-> i]
    ELSE LET v == strip(Slice(ls[i], 3, Len(ls[i]) + 1))
         IN  IF yaml_bad_value(v) THEN [exc |-> TRUE, items |-> acc, next |-> i]
             ELSE yaml_seq_items(ls, i + 1, Append(acc, yaml_scalar(v)))

\* a block sequence at the root: every line left is an item
yaml_seq(ls, i) ==
    LET r == yaml_seq_items(ls, i, <<>>)
    IN  IF r.exc \/ r.next <= Len(ls) THEN YamlError ELSE YamlValue(PyList(r.items))

\* a block mapping at the root; an entry with no value takes the block
\* sequence that follows it
RECURSIVE yaml_map(_, _, _)
yaml_map(ls, i, acc) ==
    IF i > Len(ls) THEN YamlValue(PyDict(acc))
    ELSE IF yaml_is_comment(ls[i]) THEN yaml_map(ls, i + 1, acc)
    ELSE IF ~yaml_is_map(ls[i]) THEN YamlError
    ELSE LET l == ls[i]
             c == IF FindSub(l, <<":", " ">>, 1) # 0
                  THEN FindSub(l, <<":", " ">>, 1) ELSE Len(l)
             key == strip(Slice(l, 1, c))
             v == strip(Slice(l, c + 1, Len(l) + 1))
             r == yaml_seq_items(ls, i + 1, <<>>)
         IN  IF yaml_bad_value(v) THEN YamlError
             ELSE IF v # <<>> THEN yaml_map(ls, i + 1, dict_set(acc, key, yaml_scalar(v)))
             ELSE IF r.exc THEN YamlError
             ELSE yaml_map(ls, r.next,
                           dict_set(acc, key, IF r.items = <<>> THEN PyNone
                                              ELSE PyList(r.items)))

\* plain text at the root, folded over the lines that follow; a comment ends it
RECURSIVE yaml_plain(_, _, _, _)
yaml_plain(ls, i, acc, ended) ==
    IF i > Len(ls) THEN YamlValue(PyStr(acc))
    ELSE IF yaml_is_comment(ls[i]) THEN yaml_plain(ls, i + 1, acc, TRUE)
    ELSE IF ended \/ yaml_is_map(ls[i]) THEN YamlError
    ELSE yaml_plain(ls, i + 1, acc \o <<" ">> \o strip(ls[i]), FALSE)

RECURSIVE yaml_first(_, _)
yaml_first(ls, i) ==
    IF i > Len(ls) \/ ~yaml_is_comment(ls[i]) THEN i ELSE yaml_first(ls, i + 1)

\* yaml.safe_load(s): [exc, v]
yaml_safe_load(s) ==
    LET ls == split(s, "\n")
        i  == yaml_first(ls, 1)
    IN  IF i > Len(ls) THEN YamlValue(PyNone)
        ELSE IF yaml_is_seq(ls[i]) THEN yaml_seq(ls, i)
        ELSE IF yaml_is_map(ls[i]) THEN yaml_map(ls, i, <<>>)
        ELSE IF yaml_bad_value(ls[i]) THEN YamlError
        ELSE IF yaml_first(ls, i + 1) > Len(ls) THEN YamlValue(yaml_scalar(ls[i]))
        ELSE yaml_plain(ls, i + 1, strip(ls[i]), FALSE)

\* bool(value) is False
py_falsy(val) ==
    \/ val.t = "none"
    \/ val.t = "bool" /\ ~val.v
    \/ val.t \in {"str", "dict", "list"} /\ val.v = <<>>
    \/ val.t = "int" /\ val.v = 0

----------------------------------------------------------------------------
(* json.loads on texts that hold no backslash and no fraction or exponent  *)

JsonError == [exc |-> TRUE, v |-> PyNone, end |-> 0]
JsonValue(v, end) == [exc |-> FALSE, v |-> v, end |-> end]

\* the whitespace of JSON, skipped from position i
RECURSIVE json_ws(_, _)
json_ws(s, i) ==
    IF i <= Len(s) /\ s[i] \in {" ", "\t", "\n", "\r"} THEN json_ws(s, i + 1) ELSE i

\* a string whose opening quote is at i: control characters end it in error
json_string(s, i) ==
    LET j == Find(s, "\"", i + 1)
    IN  IF j > Len(s) \/ \E k \in (i + 1)..(j - 1) : s[k] \in {"\n", "\t", "\r", "\\"}
        THEN JsonError
        ELSE JsonValue(PyStr(Slice(s, i + 1, j)), j + 1)

RECURSIVE json_digits(_, _)
json_digits(s, i) == IF i <= Len(s) /\ s[i] \in Digit THEN json_digits(s, i + 1) ELSE i

\* an integer at i: -?(0|[1-9][0-9]*)
json_number(s, i) ==
    LET d == IF s[i] = "-" THEN i + 1 ELSE i
        e == IF d <= Len(s) /\ s[d] = "0" THEN d + 1 ELSE json_digits(s, d)
    IN  IF e = d THEN JsonError ELSE JsonValue(PyInt(IntVal(Slice(s, i, e))), e)

RECURSIVE json_value(_, _)
RECURSIVE json_array(_, _, _)
RECURSIVE json_object(_, _, _)

\* the elements of an array, i standing where an element must begin
json_array(s, i, acc) ==
    LET r == json_value(s, i)
        c == json_ws(s, r.end)
    IN  IF r.exc \/ c > Len(s) THEN JsonError
        ELSE IF s[c] = "]" THEN JsonValue(PyList(Append(acc, r.v)), c + 1)
        ELSE IF s[c] = "," THEN json_array(s, json_ws(s, c + 1), Append(acc, r.v))
        ELSE JsonError

\* the members of an object, i standing where a key must begin
json_object(s, i, acc) ==
    IF i > Len(s) \/ s[i] # "\"" THEN JsonError
    ELSE LET k == json_string(s, i)
             c == json_ws(s, k.end)
             r == json_value(s, json_ws(s, c + 1))
             n == json_ws(s, r.end)
         IN  IF k.exc \/ c > Len(s) \/ s[c] # ":" THEN JsonError
             ELSE IF r.exc \/ n > Len(s) THEN JsonError
             ELSE IF s[n] = "}"
             THEN JsonValue(PyDict(dict_set(acc, k.v.v, r.v)), n + 1)
             ELSE IF s[n] = ","
             THEN json_object(s, json_ws(s, n + 1), dict_set(acc, k.v.v, r.v))
             ELSE JsonError

\* a value at i: [exc, v, end]
json_value(s, i) ==
    IF i > Len(s) THEN JsonError
    ELSE IF s[i] = "{"
    THEN LET j == json_ws(s, i + 1)
         IN  IF j <= Len(s) /\ s[j] = "}" THEN JsonValue(PyDict(<<>>), j + 1)
             ELSE json_object(s, j, <<>>)
    ELSE IF s[i] = "["
    THEN LET j == json_ws(s, i + 1)
         IN  IF j <= Len(s) /\ s[j] = "]" THEN JsonValue(PyList(<<>>), j + 1)
             ELSE json_array(s, j, <<>>)
    ELSE IF s[i] = "\"" THEN json_string(s, i)
    ELSE IF LitAt(s, i, Chars("null")) THEN JsonValue(PyNone, i + 4)
    ELSE IF LitAt(s, i, Chars("true")) THEN JsonValue(PyBool(TRUE), i + 4)
    ELSE IF LitAt(s, i, Chars("false")) THEN JsonValue(PyBool(FALSE), i + 5)
    ELSE json_number(s, i)

\* json.loads(s): [exc, v]; exc is json.JSONDecodeError
json_loads(s) ==
    LET r == json_value(s, json_ws(s, 1))
    IN  IF r.exc \/ json_ws(s, r.end) <= Len(s)
        THEN [exc |-> TRUE, v |-> PyNone]
        ELSE [exc |-> FALSE, v |-> r.v]

\* type(value).__name__
TypeName(val) == IF val.t = "none" THEN Chars("NoneType") ELSE Chars(val.t)

DictRaises(type, message) == [exc |-> type, msg |-> message, v |-> PyNone]

\* element i (counted from 0) of the sequence dict() is given: [exc, msg, key, val];
\* a key that is no string is kept as its text
dict_pair(el, i) ==
    LET fail(type, message) ==
            [exc |-> type, msg |-> message, key |-> <<>>, val |-> PyNone]
        elem == Chars("dictionary update sequence element #") \o NatStr(i)
    IN  IF el.t \in {"int", "none", "bool"}
        THEN fail("TypeError", Chars("cannot convert ") \o elem \o Chars(" to a sequence"))
        ELSE IF Len(el.v) # 2
        THEN fail("ValueError", elem \o Chars(" has length ") \o NatStr(Len(el.v))
                                \o Chars("; 2 is required"))
        ELSE IF el.t = "str"
        THEN [exc |-> "none", msg |-> <<>>, key |-> <<el.v[1]>>, val |-> PyStr(<<el.v[2]>>)]
        ELSE IF el.t = "dict"
        THEN [exc |-> "none", msg |-> <<>>, key |-> el.v[1][1], val |-> PyStr(el.v[2][1])]
        ELSE IF el.v[1].t \in {"list", "dict"}
        THEN fail("TypeError", Chars("unhashable type: '") \o Chars(el.v[1].t) \o <<"'">>)
        ELSE [exc |-> "none", msg |-> <<>>, key |-> py_str(el.v[1]), val |-> el.v[2]]

RECURSIVE dict_of_pairs(_, _, _)
dict_of_pairs(els, i, acc) ==
    IF i > Len(els) THEN [exc |-> "none", msg |-> <<>>, v |-> PyDict(acc)]
    ELSE LET r == dict_pair(els[i], i - 1)
         IN  IF r.exc # "none" THEN DictRaises(r.exc, r.msg)
             ELSE dict_of_pairs(els, i + 1, dict_set(acc, r.key, r.val))

\* dict(value): [exc, msg, v]
py_dict(val) ==
    IF val.t = "dict" THEN [exc |-> "none", msg |-> <<>>, v |-> val]
    ELSE IF val.t \in {"int", "none", "bool"}
    THEN DictRaises("TypeError",
                    <<"'">> \o TypeName(val) \o Chars("' object is not iterable"))
    ELSE IF val.t = "str"
    THEN dict_of_pairs([i \in 1..Len(val.v) |-> PyStr(<<val.v[i]>>)], 1, <<>>)
    ELSE dict_of_pairs(val.v, 1, <<>>)

----------------------------------------------------------------------------
(* Public render functions                                                 *)

\* data or {}
OrEmpty(d) == IF d.t = "none" \/ d.v = <<>> THEN PyDict(<<>>) ELSE d

\* the two steps of render in the other order: tags first, environment last
render_env_last(t, d, e) == expand_env(render_var_tags(t, OrEmpty(d), e), e)

render(t, d, e) == render_var_tags(expand_env(t, e), OrEmpty(d), e)

\* `\r?\n` at i: the position behind it, 0 when it does not match
LineEnd(t, i) ==
    LET j == IF i <= Len(t) /\ t[i] = "\r" THEN i + 1 ELSE i
    IN  IF j <= Len(t) /\ t[j] = "\n" THEN j + 1 ELSE 0

\* `\r?\n---\r?\n?` at i: the end of the match, 0 when there is none
FmClose(t, i) ==
    LET a == LineEnd(t, i)
    IN  IF a # 0 /\ LitAt(t, a, Chars("---"))
        THEN LET b == IF a + 3 <= Len(t) /\ t[a + 3] = "\r" THEN a + 4 ELSE a + 3
             IN  IF b <= Len(t) /\ t[b] = "\n" THEN b + 1 ELSE b
        ELSE 0

RECURSIVE FmLazyEnd(_, _)
FmLazyEnd(t, e) ==
    IF e > Len(t) THEN 0 ELSE IF FmClose(t, e) # 0 THEN e ELSE FmLazyEnd(t, e + 1)

\* _FM_RE.match(text): the end of the front-matter block, 0 when there is none
FM_RE(t) ==
    IF LitAt(t, 1, Chars("---")) /\ LineEnd(t, 4) # 0
    THEN LET ge == FmLazyEnd(t, LineEnd(t, 4) + 1)
         IN  IF ge = 0 THEN 0 ELSE FmClose(t, ge)
    ELSE 0

\* m.group(1) of _FM_RE.match(text), when it matches
FM_GROUP(t) == Slice(t, LineEnd(t, 4), FmLazyEnd(t, LineEnd(t, 4) + 1))

\* the body that strip_front_matter returns
front_matter_body(t) == IF FM_RE(t) = 0 THEN t ELSE Slice(t, FM_RE(t), Len(t) + 1)

\* strip_front_matter that drops what it parsed
strip_front_matter_empty(t) ==
    IF FM_RE(t) = 0 THEN [fm |-> PyNone, body |-> t]
    ELSE [fm |-> PyDict(<<>>), body |-> front_matter_body(t)]

\* strip_front_matter(text): (fm, body)
strip_front_matter(t) ==
    IF FM_RE(t) = 0 THEN [fm |-> PyNone, body |-> t]
    ELSE LET r == yaml_safe_load(FM_GROUP(t))
         IN  [fm   |-> IF r.exc \/ py_falsy(r.v) THEN PyDict(<<>>) ELSE r.v,
              body |-> front_matter_body(t)]

\* the parameters the two entry points declare
RenderParams     == {"text", "data"}
RenderFileParams == {"path", "data"}

\* data.update(fm), as a dictionary
RECURSIVE dict_update(_, _, _)
dict_update(d, items, i) ==
    IF i > Len(items) THEN d
    ELSE dict_update(dict_set(d, items[i][1], items[i][2]), items, i + 1)

\* render_file that renders with the front matter merged into the context
render_file_merging(raw, d, kw, e) ==
    LET r == strip_front_matter(raw)
        merged == IF r.fm.t = "dict"
                  THEN PyDict(dict_update(OrEmpty(d).v, r.fm.v, 1)) ELSE d
    IN  [exc |-> "none", fm |-> r.fm, body |-> render(r.body, merged, e)]

\* render_file(path, data, **kw) as Python binds the call: a keyword that
\* is no parameter of the function raises TypeError before its body runs
render_file(raw, d, kw, e) ==
    IF kw \subseteq RenderFileParams
    THEN [exc |-> "none", fm |-> strip_front_matter(raw).fm,
          body |-> render(strip_front_matter(raw).body, d, e)]
    ELSE [exc |-> "TypeError", fm |-> PyNone, body |-> <<>>]

----------------------------------------------------------------------------
(* Data context                                                            *)

UpperSeq == Chars("ABCDEFGHIJKLMNOPQRSTUVWXYZ")
LowerSeq == Chars("abcdefghijklmnopqrstuvwxyz")

\* s.lower()
lower(s) ==
    [i \in 1..Len(s) |->
        IF s[i] \in Upper
        THEN LowerSeq[CHOOSE k \in 1..26 : UpperSeq[k] = s[i]] ELSE s[i]]

\* Path(name).suffix of a name that holds no directory: from its last dot on,
\* empty when the name has no dot behind its first character
RECURSIVE suffix(_, _)
suffix(name, i) ==
    IF i <= 1 THEN <<>>
    ELSE IF name[i] = "." THEN Slice(name, i, Len(name) + 1) ELSE suffix(name, i - 1)

Raises(type, message) == [exc |-> type, msg |-> message, v |-> PyNone]
Returns(val)          == [exc |-> "none", msg |-> <<>>, v |-> val]

\* value or {}
OrDict(val) == IF py_falsy(val) THEN PyDict(<<>>) ELSE val

\* `dict(yaml.safe_load(raw) or {})` inside `except yaml.YAMLError` and
\* `except Exception`: loaded is what yaml.safe_load gave, every failure is `invalid`
yaml_mapping(loaded, invalid) ==
    IF loaded.exc \/ py_dict(OrDict(loaded.v)).exc # "none" THEN invalid
    ELSE py_dict(OrDict(loaded.v))

\* `dict(json.loads(raw))` inside `except json.JSONDecodeError`: loaded is what
\* json.loads gave, a decoding error is `invalid`, what dict() raises goes on
json_mapping(loaded, invalid) == IF loaded.exc THEN invalid ELSE py_dict(loaded.v)

\* _load_data_file(data_file): files maps the paths that exist to
\* [utf8, text], the bytes of the file being UTF-8 or not
load_data_file(data_file, files) ==
    IF data_file \notin DOMAIN files
    THEN Raises("ValueError", Chars("Data file not found: ") \o data_file)
    ELSE IF ~files[data_file].utf8
    THEN Raises("UnicodeDecodeError", Chars("'utf-8' codec can't decode byte"))
    ELSE IF lower(suffix(data_file, Len(data_file))) \in {Chars(".yaml"), Chars(".yml")}
    THEN yaml_mapping(yaml_safe_load(files[data_file].text),
                      Raises("ValueError",
                             Chars("Invalid YAML in ") \o data_file \o Chars(": ")))
    ELSE json_mapping(json_loads(files[data_file].text),
                      Raises("ValueError",
                             Chars("Invalid JSON in ") \o data_file \o Chars(": ")))

\* _parse_json_arg(label, raw)
parse_json_arg(label, raw) ==
    json_mapping(json_loads(raw),
                 Raises("ValueError", Chars("Invalid JSON from ") \o label \o Chars(": ")))

\* `except ValueError`: the exception types the handler catches
\* (UnicodeDecodeError is a subclass of ValueError)
IsValueError(type) == type \in {"ValueError", "UnicodeDecodeError"}

\* `if x:` of an Optional[str]
truthy(x) == x.t = "str" /\ x.v # <<>>

\* `if given: result.update(source)`: the call ends where a step has raised
update_from(result, given, source) ==
    IF result.exc # "none" \/ ~given THEN result
    ELSE IF source.exc # "none" THEN source
    ELSE Returns(PyDict(dict_update(result.v.v, source.v.v, 1)))

\* build_context(data_json, data_file, stdin_json)
build_context(data_json, data_file, stdin_json, files) ==
    update_from(
        update_from(
            update_from(Returns(PyDict(<<>>)),
                        truthy(data_file), load_data_file(data_file.v, files)),
            truthy(data_json), parse_json_arg(Chars("--data"), data_json.v)),
        truthy(stdin_json) /\ strip(stdin_json.v) # <<>>,
        parse_json_arg(Chars("stdin"), stdin_json.v))

----------------------------------------------------------------------------
(* The inputs: template bodies, contexts and environments                  *)

MaxParts    == 2   \* tags per template body
MaxEnvParts == 2   \* tokens per body of the environment-expansion runs

TagA      == Chars("<ARX [[a]] />")              \* resolves in CtxFull
TagM      == Chars("<ARX [[m]] />")              \* never resolves, no default
TagMDef   == Chars("<ARX [[m | \"d\"]] />")      \* default used
TagADef   == Chars("<ARX [[a | \"d\"]] />")      \* default not needed
TagANew   == Chars("<ARX [[a]] :new />")
TagBDo    == Chars("<ARX [[b]] :do />")
TagMDefDo == Chars("<ARX [[m | \"d\"]] :do />")
TagEnvFoo == Chars("<ARX [[env.FOO]] />")
TagEnvUn  == Chars("<ARX [[env.UN]] />")
TagEnvDef == Chars("<ARX [[env.UN | d]] />")
TagQuote2 == Chars("<ARX [[m | \"\"x\"\"]] />")  \* two layers of quotes
TagQuoteX == Chars("<ARX [[m | \"x']] />")       \* opening " and closing '
TagNDef   == Chars("<ARX [[n | \"d\"]] />")      \* n is present and None

TagPieces == {TagA, TagM, TagMDef, TagADef, TagANew, TagBDo, TagMDefDo,
              TagEnvFoo, TagEnvUn, TagEnvDef, TagQuote2, TagQuoteX, TagNDef}

Bob    == Chars("bob")
Seps   == {<<>>, Bob}

EnvPieces == {Bob, Chars("$FOO"), Chars("${FOO}"), Chars("${A}"), Chars("$A"),
              Chars("$UN"), Chars("${UN}"), Chars("<ARX [[a]]"), Chars(" />")}

RECURSIVE Join(_, _)
Join(ps, sep) ==
    IF ps = <<>> THEN <<>>
    ELSE IF Len(ps) = 1 THEN ps[1]
    ELSE ps[1] \o sep \o Join(Tail(ps), sep)

Bodies(pieces, seps, n) ==
    {Join(ps, sep) : ps \in UNION {[1..k -> pieces] : k \in 0..n}, sep \in seps}

CtxEmpty == PyDict(<<>>)
CtxFull  ==
    PyDict(<< <<Chars("a"), PyStr(Chars("X"))>>,
              <<Chars("b"), PyStr(Chars("Y"))>>,
              <<Chars("n"), PyNone>>,
              <<Chars("env"), PyDict(<< <<Chars("FOO"), PyStr(Chars("ctx"))>>,
                                        <<Chars("UN"), PyStr(Chars("ctx"))>> >>)>>,
              <<Chars("user"),
                PyDict(<< <<Chars("tags"),
                            PyList(<<PyStr(Chars("x")), PyStr(Chars("y"))>>)>> >>)>> >>)

EnvEmpty == [name \in {} |-> <<>>]
EnvFull  == (Chars("FOO") :> Chars("bar")) @@ (Chars("A") :> Chars("$FOO"))
            @@ (Chars("E") :> <<>>)

----------------------------------------------------------------------------
(* The operations                                                          *)

\* a file system that holds nothing
NoDisk == [files |-> [path \in {} |-> <<>>], dirs |-> {}]

\* build_context() with no source: data_json, data_file and stdin_json are None
NoArgs == [data_json |-> PyNone, data_file |-> PyNone, stdin_json |-> PyNone,
           files |-> <<>>]

InitWith(bodies) ==
    /\ text \in bodies
    /\ data \in {CtxEmpty, CtxFull}
    /\ environ \in {EnvEmpty, EnvFull}
    /\ pc = "ready"
    /\ op = "none"
    /\ out = <<>>
    /\ exc = "none"
    /\ args = NoArgs
    /\ ret = PyNone
    /\ msg = <<>>
    /\ disk = NoDisk

Init    == InitWith(Bodies(TagPieces, Seps, MaxParts))
InitEnv == InitWith(Bodies(EnvPieces, {<<>>}, MaxEnvParts))

\* the end of an operation that leaves the file system as stored
Stored(name, result, value, raised, message, stored) ==
    /\ pc' = "done"
    /\ op' = name
    /\ out' = result
    /\ ret' = value
    /\ exc' = raised
    /\ msg' = message
    /\ disk' = stored
    /\ UNCHANGED <<text, data, environ, args>>

Finished(name, result, value, raised, message) ==
    Stored(name, result, value, raised, message, disk)

Returned(name, result, value, raised) == Finished(name, result, value, raised, <<>>)

Done(name, result, raised) == Returned(name, result, PyNone, raised)

\* the operation name has finished
Ran(name) == pc = "done" /\ op = name

\* render(text, data)
Render ==
    /\ pc = "ready"
    /\ Done("render", render(text, data, environ), "none")

\* _expand_env(text)
ExpandEnv ==
    /\ pc = "ready"
    /\ Done("expand_env", expand_env(text, environ), "none")

\* _render_var_tags(text, data)
RenderVarTags ==
    /\ pc = "ready"
    /\ Done("render_var_tags", render_var_tags(text, data, environ), "none")

\* _render_template_stage(template_path, context, verbose), the template
\* holding text (no front matter, so no context script):
\* render_file(template_path, context, phase="new") runs inside
\* `try ... except Exception`, which turns what it raises into PromptError
RenderTemplateStage ==
    /\ pc = "ready"
    /\ LET r == render_file(text, data, {"path", "data", "phase"}, environ)
       IN  IF r.exc # "none"
           THEN Done("new", <<>>, "PromptError")
           ELSE Done("new", r.body, "none")

\* _do_prompt_impl(prompt_file, data_file, data_json, history, output_file,
\* dry_run, verbose), the prompt file existing and holding text, and
\* build_context having returned data: a dry run prints its preview and
\* returns; otherwise render_file(prompt_path, data, phase="do") runs inside
\* `try ... except Exception`, which turns what it raises into PromptError,
\* and the rendered text is what _write_output receives
PromptDo ==
    /\ pc = "ready"
    /\ \E dry_run \in BOOLEAN :
         IF dry_run
         THEN Done("do_dry_run", <<>>, "none")
         ELSE LET r == render_file(text, data, {"path", "data", "phase"}, environ)
              IN  IF r.exc # "none"
                  THEN Done("do", <<>>, "PromptError")
                  ELSE Done("do", r.body, "none")

Next == Render \/ ExpandEnv \/ RenderVarTags \/ RenderTemplateStage \/ PromptDo

Spec    == Init /\ [][Next]_vars
SpecEnv == InitEnv /\ [][Next]_vars

----------------------------------------------------------------------------
(* Rendering the output of a render again                                  *)

MaxTwice == 2   \* tags per template body of the re-rendering runs

TagB      == Chars("<ARX [[b]] />")
TagT      == Chars("<ARX [[t]] />")              \* its value is itself a tag
TagC      == Chars("<ARX [[c]] />")              \* its value is a $NAME token
TagH      == Chars("<ARX [[h]] />")              \* its value opens a tag
TagI      == Chars("<ARX [[i]] />")              \* its value closes a tag
TagEnvA   == Chars("<ARX [[env.A]] />")
TagEnvDol == Chars("<ARX [[m | \"$A\"]] />")     \* default holding a $NAME token

TwicePieces == {TagA, TagB, TagT, TagC, TagH, TagI, TagMDef, TagEnvFoo,
                TagEnvA, TagEnvDol}

CtxTwice ==
    PyDict(<< <<Chars("a"), PyStr(Chars("X"))>>,
              <<Chars("b"), PyStr(Chars("Y"))>>,
              <<Chars("t"), PyStr(TagB)>>,
              <<Chars("c"), PyStr(Chars("$FOO"))>>,
              <<Chars("h"), PyStr(Chars("<ARX [["))>>,
              <<Chars("i"), PyStr(Chars("a]] />"))>> >>)

EnvPlain == (Chars("FOO") :> Chars("bar")) @@ (Chars("A") :> Chars("baz"))

InitTwice ==
    /\ text \in Bodies(TwicePieces, Seps, MaxTwice)
    /\ data \in {CtxFull, CtxTwice}
    /\ environ \in {EnvEmpty, EnvFull, EnvPlain}
    /\ pc = "ready"
    /\ op = "none"
    /\ out = <<>>
    /\ exc = "none"
    /\ args = NoArgs
    /\ ret = PyNone
    /\ msg = <<>>
    /\ disk = NoDisk

\* render(render(text, data), data): the caller renders, and renders the
\* result again with the same context and environment
RenderTwice ==
    /\ pc = "ready"
    /\ Done("render_twice",
            render(render(text, data, environ), data, environ), "none")

NextTwice == Render \/ RenderTwice

SpecTwice == InitTwice /\ [][NextTwice]_vars

----------------------------------------------------------------------------
(* Dotted paths                                                            *)

MaxPath == 3   \* segments per dotted path

PathSegs == {Chars("user"), Chars("tags"), Chars("a"), Chars("m"), Chars("n"),
             Chars("0"), Chars("1"), Chars("9"), Chars("-1"), Chars("x")}

\* the tag `<ARX [[key]] />`
PathTag(key) == Chars("<ARX [[") \o key \o Chars("]] />")

InitPath ==
    /\ text \in Bodies(PathSegs, {<<".">>}, MaxPath)
    /\ data \in {CtxEmpty, CtxFull}
    /\ environ \in {EnvEmpty, EnvFull}
    /\ pc = "ready"
    /\ op = "none"
    /\ out = <<>>
    /\ exc = "none"
    /\ args = NoArgs
    /\ ret = PyNone
    /\ msg = <<>>
    /\ disk = NoDisk

\* _resolve_path(key, data), text holding the key
ResolvePath ==
    /\ pc = "ready"
    /\ Returned("resolve_path", <<>>, resolve_path(text, data), "none")

\* render(text, data) of the template that is the one tag `<ARX [[key]] />`
RenderPathTag ==
    /\ pc = "ready"
    /\ Done("render_path_tag", render(PathTag(text), data, environ), "none")

NextPath == ResolvePath \/ RenderPathTag

SpecPath == InitPath /\ [][NextPath]_vars

----------------------------------------------------------------------------
(* Structural tags                                                         *)

MaxStruct == 2   \* structural tags per template body

StructPieces ==
    {Chars("<ARX [[#if a]] />"),     Chars("<ARX [[ #if a ]] />"),
     Chars("<ARX [[#if a | b]] />"), Chars("<ARX [[ #if a | b ]] />"),
     Chars("<ARX [[/if]] />"),       Chars("<ARX [[ /if ]] />"),
     Chars("<ARX [[^a]] />"),        Chars("<ARX [[*a | b]] />"),
     Chars("<ARX [[@inc]] />"),      Chars("<ARX [[\n@inc | b]] />")}

InitStruct ==
    /\ text \in Bodies(StructPieces, Seps, MaxStruct)
    /\ data \in {CtxEmpty, CtxFull}
    /\ environ \in {EnvEmpty, EnvFull}
    /\ pc = "ready"
    /\ op = "none"
    /\ out = <<>>
    /\ exc = "none"
    /\ args = NoArgs
    /\ ret = PyNone
    /\ msg = <<>>
    /\ disk = NoDisk

NextStruct == Render \/ RenderVarTags

SpecStruct == InitStruct /\ [][NextStruct]_vars

----------------------------------------------------------------------------
(* Template files with front matter                                        *)

MaxFmLines == 2   \* lines of a front-matter block

FmLines == {Chars("k: v"), Chars("a: X"), Chars("j: 2"), Chars("n:"),
            Chars("k: \"w\""), Chars("# c"), Chars("just text"), Chars("- a"),
            Chars("k: ["), Chars("a: b: c")}

TagK == Chars("<ARX [[k]] />")

FileBodies == {TagK, TagA \o Bob, Bob}

\* a file that opens with a `---` block holding the lines, then the body
WithFrontMatter(lines, body) ==
    Chars("---\n") \o lines \o Chars("\n---\n") \o body

Files ==
    FileBodies \cup
    {WithFrontMatter(lines, body) :
        lines \in Bodies(FmLines, {<<"\n">>}, MaxFmLines), body \in FileBodies}

InitFile ==
    /\ text \in Files
    /\ data \in {CtxEmpty, CtxFull}
    /\ environ \in {EnvEmpty, EnvFull}
    /\ pc = "ready"
    /\ op = "none"
    /\ out = <<>>
    /\ exc = "none"
    /\ args = NoArgs
    /\ ret = PyNone
    /\ msg = <<>>
    /\ disk = NoDisk

\* strip_front_matter(text)
StripFrontMatter ==
    /\ pc = "ready"
    /\ LET r == strip_front_matter(text)
       IN  Returned("strip_front_matter", r.body, r.fm, "none")

\* render_file(path, data), the file at path holding text
RenderFile ==
    /\ pc = "ready"
    /\ LET r == render_file(text, data, {"path", "data"}, environ)
       IN  Returned("render_file", r.body, r.fm, r.exc)

NextFile == StripFrontMatter \/ RenderFile

SpecFile == InitFile /\ [][NextFile]_vars

----------------------------------------------------------------------------
(* The sources of a data context                                           *)

MaxPairs == 2   \* members of an inline JSON object

PairTexts == {Chars("\"k\": \"v\""), Chars("\"o\": 1"),
              Chars("\"k\": {\"x\": 1, \"y\": 2}"), Chars("\"k\": {\"x\": 9}")}

JsonObject(members) == <<"{">> \o members \o <<"}">>

\* texts that are no JSON object: invalid JSON, and JSON of another type
OtherTexts == {Chars("not valid json"), Chars("{\"k\": "), Chars("{\"k\": \"v\",}"),
               <<>>, <<" ">>, Chars("5"), Chars("null"), Chars("true"),
               Chars("[]"), Chars("\"ab\""), Chars("[\"ab\"]"),
               Chars("[[\"k\", \"v\"]]")}

InlineTexts ==
    {JsonObject(m) : m \in Bodies(PairTexts, {Chars(", ")}, MaxPairs)} \cup OtherTexts

StdinTexts == {Chars("{\"k\": \"s\"}"), Chars("{\"k\": {\"y\": 7}, \"p\": 2}\n"),
               Chars("not valid json"), Chars(" \n"), Chars("5")}

FileJsonTexts == {Chars("{\"k\": \"f\", \"o\": 0}"), Chars("{\"k\": {\"x\": 1, \"z\": 3}}"),
                  Chars("{}"), Chars("not valid json"), Chars("5"), <<>>}

FileYamlTexts == {Chars("k: f\nq: 4"), Chars("k: ["), Chars("just text"),
                  Chars("- a"), Chars("# c")}

TextFile(content) == [utf8 |-> TRUE, text |-> content]
NoFiles == [path \in {} |-> TextFile(<<>>)]

\* data_file and the files that exist: [data_file, files]
FileArgs ==
    {[data_file |-> PyNone, files |-> NoFiles],
     [data_file |-> PyStr(<<>>), files |-> NoFiles],
     [data_file |-> PyStr(Chars("missing.json")), files |-> NoFiles],
     [data_file |-> PyStr(Chars("d.json")),
      files |-> (Chars("d.json") :> [utf8 |-> FALSE, text |-> <<>>])]}
    \cup {[data_file |-> PyStr(Chars("d.json")),
           files |-> (Chars("d.json") :> TextFile(c))] : c \in FileJsonTexts}
    \cup {[data_file |-> PyStr(name), files |-> (name :> TextFile(c))] :
            name \in {Chars("d.yaml"), Chars("d.YML")}, c \in FileYamlTexts}

InitContext ==
    /\ \E f \in FileArgs, j \in {PyNone} \cup {PyStr(x) : x \in InlineTexts},
          i \in {PyNone} \cup {PyStr(x) : x \in StdinTexts} :
         args = [data_json |-> j, data_file |-> f.data_file, stdin_json |-> i,
                 files |-> f.files]
    /\ text = <<>>
    /\ data = CtxEmpty
    /\ environ = EnvEmpty
    /\ pc = "ready"
    /\ op = "none"
    /\ out = <<>>
    /\ exc = "none"
    /\ ret = PyNone
    /\ msg = <<>>
    /\ disk = NoDisk

\* build_context(data_json, data_file, stdin_json)
BuildContext ==
    /\ pc = "ready"
    /\ LET r == build_context(args.data_json, args.data_file, args.stdin_json,
                              args.files)
       IN  Finished("build_context", <<>>, r.v, r.exc, r.msg)

NextContext == BuildContext

SpecContext == InitContext /\ [][NextContext]_vars

----------------------------------------------------------------------------
(* Paths and the file system                                               *)

\* Path(a) / b, b being relative; Path('') is the current directory
PathJoin(a, b) == IF a = <<>> \/ a = <<".">> THEN b ELSE a \o <<"/">> \o b

\* the position of the last '/' of path at or before i, 0 when there is none
RECURSIVE LastSlash(_, _)
LastSlash(path, i) ==
    IF i = 0 THEN 0 ELSE IF path[i] = "/" THEN i ELSE LastSlash(path, i - 1)

\* path.parent and path.name
Parent(path)   == Slice(path, 1, LastSlash(path, Len(path)))
Basename(path) == Slice(path, LastSlash(path, Len(path)) + 1, Len(path) + 1)

\* path.stem: the name without its suffix
NameStem(name) == Slice(name, 1, Len(name) + 1 - Len(suffix(name, Len(name))))
Stem(path)     == NameStem(Basename(path))

\* path and the directories above it
Ancestors(path) ==
    {path} \cup {Slice(path, 1, i) : i \in {j \in 1..Len(path) : path[j] = "/"}}

\* path.exists(); the current directory always does
Exists(d, path) == path \in DOMAIN d.files \/ path \in d.dirs \/ path = <<".">>

\* path.mkdir(parents=True, exist_ok=True): [exc, disk]
MkdirParents(d, path) ==
    IF path \in DOMAIN d.files THEN [exc |-> "FileExistsError", disk |-> d]
    ELSE IF Ancestors(path) \cap DOMAIN d.files # {}
    THEN [exc |-> "NotADirectoryError", disk |-> d]
    ELSE [exc |-> "none",
          disk |-> [d EXCEPT !.dirs = @ \cup (Ancestors(path) \ {<<>>, <<".">>})]]

\* path.write_text(content, encoding="utf-8"): [exc, disk]
WriteText(d, path, content) ==
    IF path \in d.dirs THEN [exc |-> "IsADirectoryError", disk |-> d]
    ELSE IF ~Exists(d, Parent(path)) /\ Parent(path) # <<>>
    THEN [exc |-> "FileNotFoundError", disk |-> d]
    ELSE [exc |-> "none",
          disk |-> [d EXCEPT !.files =
                       [p \in DOMAIN @ \cup {path} |->
                           IF p = path THEN [utf8 |-> TRUE, text |-> content] ELSE @[p]]]]

----------------------------------------------------------------------------
(* prompt new and prompt do                                                *)

\* os.environ.get(name) is set and not empty
EnvSet(e, name) == name \in DOMAIN e /\ e[name] # <<>>

\* _template_search_dirs()
template_search_dirs(e) ==
    (IF EnvSet(e, Chars("ARX_AGENT_TOOLS"))
     THEN <<PathJoin(e[Chars("ARX_AGENT_TOOLS")], Chars("templates"))>> ELSE <<>>)
    \o (IF EnvSet(e, Chars("AGENTRX_SOURCE"))
        THEN <<PathJoin(e[Chars("AGENTRX_SOURCE")], Chars("templates"))>> ELSE <<>>)

\* the loop of _find_template over the search directories from i on
RECURSIVE find_in_dirs(_, _, _, _)
find_in_dirs(name, dirs, i, d) ==
    IF i > Len(dirs) THEN PyNone
    ELSE IF ~Exists(d, dirs[i]) THEN find_in_dirs(name, dirs, i + 1, d)
    ELSE IF Exists(d, PathJoin(dirs[i], name)) THEN PyStr(PathJoin(dirs[i], name))
    ELSE IF Exists(d, PathJoin(dirs[i], name \o Chars(".md")))
    THEN PyStr(PathJoin(dirs[i], name \o Chars(".md")))
    ELSE find_in_dirs(name, dirs, i + 1, d)

\* _find_template that looks at the direct path only
find_template_direct(name, d, e) ==
    IF name = <<>> \/ Exists(d, name) THEN PyStr(IF name = <<>> THEN <<".">> ELSE name)
    ELSE PyNone

\* _find_template(name_or_path), the name holding no '/': the path found, or None
find_template(name, d, e) ==
    IF name = <<>> \/ Exists(d, name) THEN PyStr(IF name = <<>> THEN <<".">> ELSE name)
    ELSE IF suffix(name, Len(name)) = <<>> /\ Exists(d, name \o Chars(".md"))
    THEN PyStr(name \o Chars(".md"))
    ELSE find_in_dirs(name, template_search_dirs(e), 1, d)

\* what _resolve_template_arg leaves with: [exc, msg, path, prompt]
Resolved(path, prompt) == [exc |-> "none", msg |-> <<>>, path |-> path, prompt |-> prompt]

\* the second half of _resolve_template_arg, found being what _find_template gave
resolve_found(template, prompt_text, found) ==
    IF found.t # "none" THEN Resolved(found, prompt_text)
    ELSE IF prompt_text.t = "none" THEN Resolved(PyNone, template)
    ELSE [exc |-> "PromptError",
          msg |-> Chars("Template not found: '") \o template.v \o <<"'">>,
          path |-> PyNone, prompt |-> PyNone]

\* _resolve_template_arg(template, prompt_text)
resolve_template_arg(template, prompt_text, d, e) ==
    IF ~truthy(template) THEN Resolved(PyNone, prompt_text)
    ELSE resolve_found(template, prompt_text, find_template(template.v, d, e))

\* what subprocess.run([script], ...) can end with: the script is missing,
\* may not be executed, runs longer than the timeout, or exits
ProcMissing == [kind |-> "missing", code |-> 0, stdout |-> <<>>]
ProcDenied  == [kind |-> "denied",  code |-> 0, stdout |-> <<>>]
ProcTimeout == [kind |-> "timeout", code |-> 0, stdout |-> <<>>]
ProcExit(code, stdout) == [kind |-> "exit", code |-> code, stdout |-> stdout]

\* _run_context_script that goes on with an empty mapping when the script fails
run_context_script_lenient(script, proc) ==
    IF proc.kind = "exit" /\ proc.code = 0 /\ ~json_loads(proc.stdout).exc
    THEN json_mapping(json_loads(proc.stdout), Returns(PyDict(<<>>)))
    ELSE Returns(PyDict(<<>>))

\* _run_context_script(script, context), proc being how the script ended:
\* [exc, msg, v]
run_context_script(script, proc) ==
    IF proc.kind = "missing"
    THEN Raises("PromptError", Chars("Context script not found: ") \o script)
    ELSE IF proc.kind = "denied"
    THEN Raises("PermissionError", Chars("[Errno 13] Permission denied: "))
    ELSE IF proc.kind = "timeout"
    THEN Raises("PromptError", Chars("Context script timed out (30 s): ") \o script)
    ELSE IF proc.code # 0
    THEN Raises("PromptError",
                Chars("Context script exited ") \o IntStr(proc.code) \o Chars(": "))
    ELSE json_mapping(json_loads(proc.stdout),
                      Raises("PromptError",
                             Chars("Context script returned non-JSON output: ")))

\* context.setdefault(key, val): a key that is present keeps its value
setdefault(d, key, val) ==
    IF \E i \in 1..Len(d) : d[i][1] = key THEN d ELSE Append(d, <<key, val>>)

\* (fm or {}).get(key, default), fm being a mapping or None
FmGet(fm, key, default) ==
    IF fm.t = "dict" /\ DictHas(fm, key) THEN DictGet(fm, key) ELSE default

\* what a stage of prompt new leaves with: [exc, msg, fm, body, context]
Stage(fm, body, context) ==
    [exc |-> "none", msg |-> <<>>, fm |-> fm, body |-> body, context |-> context]
StageRaises(type, message, context) ==
    [exc |-> type, msg |-> message, fm |-> PyNone, body |-> <<>>, context |-> context]

\* the end of _render_template_stage when the front matter names a script:
\* ran is what _run_context_script left with; the body is rendered again by
\* render(body, context, phase="new"), outside any try block
stage_script(fm, body, context, ran, e) ==
    IF ran.exc # "none" THEN StageRaises(ran.exc, ran.msg, context)
    ELSE IF {"text", "data", "phase"} \subseteq RenderParams
    THEN Stage(fm, render(body, PyDict(dict_update(context.v, ran.v.v, 1)), e),
               PyDict(dict_update(context.v, ran.v.v, 1)))
    ELSE StageRaises("TypeError",
                     Chars("render() got an unexpected keyword argument 'phase'"),
                     PyDict(dict_update(context.v, ran.v.v, 1)))

\* _render_template_stage behind its call of render_file, r being what
\* render_file(template_path, context, phase="new") left with
stage_rendered(template_path, context, r, proc, e) ==
    IF r.exc # "none"
    THEN StageRaises("PromptError",
                     Chars("Failed to read template ") \o template_path \o Chars(": "),
                     context)
    ELSE IF r.fm.t \notin {"dict", "none"}
    THEN StageRaises("AttributeError", Chars("object has no attribute 'get'"), context)
    ELSE IF py_falsy(FmGet(r.fm, Chars("script"), PyNone)) THEN Stage(r.fm, r.body, context)
    ELSE stage_script(r.fm, r.body, context,
                      run_context_script(py_str(FmGet(r.fm, Chars("script"), PyNone)), proc),
                      e)

\* _render_template_stage(template_path, context, verbose): reading a path
\* that is no file, or a file that is not UTF-8, raises inside the try block
render_template_stage(template_path, context, d, e, proc) ==
    IF template_path \notin DOMAIN d.files \/ ~d.files[template_path].utf8
    THEN StageRaises("PromptError",
                     Chars("Failed to read template ") \o template_path \o Chars(": "),
                     context)
    ELSE stage_rendered(template_path, context,
                        render_file(d.files[template_path].text, context,
                                    {"path", "data", "phase"}, e),
                        proc, e)

\* str.isalnum() of an ASCII character
IsAlnum(c) == c \in Upper \cup Lower \cup Digit

\* the end of the word of t that starts at i: the first position from i on
\* that holds white space, or the position behind t
RECURSIVE WordEnd(_, _)
WordEnd(t, i) == IF i > Len(t) \/ IsSpace(t[i]) THEN i ELSE WordEnd(t, i + 1)

\* text.split(): the words of text from position i on
RECURSIVE Words(_, _)
WordsAt(t, a)  == <<Slice(t, a, WordEnd(t, a))>> \o Words(t, WordEnd(t, a))
Words(t, i) == IF SkipSpace(t, i) > Len(t) THEN <<>> ELSE WordsAt(t, SkipSpace(t, i))

\* "".join(c for c in w.lower() if c.isalnum())
AlnumLower(w) == SelectSeq(lower(w), IsAlnum)

\* words[:3], each word stripped to its letters and digits in lower case
FirstThree(ws) == [i \in 1..(IF Len(ws) < 3 THEN Len(ws) ELSE 3) |-> AlnumLower(ws[i])]

\* `joined or "prompt"`
OrPrompt(joined) == IF joined = <<>> THEN Chars("prompt") ELSE joined

\* _derive_short_name(text)
derive_short_name(t) == OrPrompt(Join(FirstThree(Words(t, 1)), <<"_">>))

\* get_prompts_dir()
get_prompts_dir(e) ==
    IF Chars("ARX_PROMPTS") \in DOMAIN e THEN e[Chars("ARX_PROMPTS")]
    ELSE Chars("_project/docs/agentrx/vibes")

\* _build_output_path(work_docs, subdir, short_name), ts being the hour of the run
build_output_path(work_docs, subdir, short_name, ts) ==
    PathJoin(PathJoin(work_docs, subdir), short_name \o <<"_">> \o ts \o Chars(".md"))

\* what prompt new leaves with: [exc, msg, body, context, path, disk]
NewResult(type, message, body, context, path, d) ==
    [exc |-> type, msg |-> message, body |-> body, context |-> context,
     path |-> path, disk |-> d]

\* stage 5 of _new_prompt_impl: out_path.parent.mkdir(parents=True,
\* exist_ok=True), then out_path.write_text(body)
new_write(body, context, out_path, made) ==
    IF made.exc # "none" THEN NewResult(made.exc, <<>>, body, context, out_path, made.disk)
    ELSE NewResult(WriteText(made.disk, out_path, body).exc, <<>>, body, context,
                   out_path, WriteText(made.disk, out_path, body).disk)

\* stages 4 and 5 of _new_prompt_impl with the dry run forgotten
new_output_always(a, d, body, context, out_path) ==
    new_write(body, context, out_path, MkdirParents(d, Parent(out_path)))

\* stages 4 and 5 of _new_prompt_impl: a dry run prints and returns
new_output(a, d, body, context, out_path) ==
    IF a.dry_run THEN NewResult("none", <<>>, body, context, out_path, d)
    ELSE new_write(body, context, out_path, MkdirParents(d, Parent(out_path)))

\* out_subdir and out_name of _new_prompt_impl
new_subdir(a, fm) ==
    IF truthy(a.subdir) THEN a.subdir.v
    ELSE py_str(FmGet(fm, Chars("subdir"), PyStr(Chars("vibes"))))

new_name(a, fm, r) ==
    IF truthy(a.short_name) THEN a.short_name.v
    ELSE IF ~py_falsy(FmGet(fm, Chars("short_name"), PyNone))
    THEN py_str(FmGet(fm, Chars("short_name"), PyNone))
    ELSE derive_short_name(IF truthy(r.prompt) THEN r.prompt.v
                           ELSE IF r.path.t # "none" THEN Stem(r.path.v)
                           ELSE Chars("prompt"))

\* os.environ.get("ARX_WORK_DOCS", get_prompts_dir())
new_work_docs(e) ==
    IF Chars("ARX_WORK_DOCS") \in DOMAIN e THEN e[Chars("ARX_WORK_DOCS")]
    ELSE get_prompts_dir(e)

\* _new_prompt_impl behind stages 2 and 3, s being what they left with
new_staged(a, d, e, r, s) ==
    IF s.exc # "none" THEN NewResult(s.exc, s.msg, <<>>, s.context, <<>>, d)
    ELSE new_output(a, d, s.body, s.context,
                    build_output_path(new_work_docs(e), new_subdir(a, s.fm),
                                      new_name(a, s.fm, r), a.now))

\* stages 2 and 3 of _new_prompt_impl, context holding the prompt text
new_render(a, d, e, r, context) ==
    IF r.path.t # "none"
    THEN new_staged(a, d, e, r, render_template_stage(r.path.v, context, d, e, a.proc))
    ELSE new_staged(a, d, e, r,
                    Stage(PyNone, IF truthy(r.prompt) THEN r.prompt.v ELSE <<>>, context))

\* `if prompt_text: context.setdefault("prompt", prompt_text)`
with_prompt(context, prompt_text) ==
    IF truthy(prompt_text)
    THEN PyDict(setdefault(context.v, Chars("prompt"), prompt_text)) ELSE context

\* _new_prompt_impl behind build_context, c being what build_context left
\* with: `except ValueError` raises PromptError, anything else goes on
new_context(a, d, e, r, c) ==
    IF c.exc = "none" THEN new_render(a, d, e, r, with_prompt(c.v, r.prompt))
    ELSE IF IsValueError(c.exc) THEN NewResult("PromptError", c.msg, <<>>, PyNone, <<>>, d)
    ELSE NewResult(c.exc, c.msg, <<>>, PyNone, <<>>, d)

\* _new_prompt_impl behind stage 1, r being what _resolve_template_arg left with
new_resolved(a, d, e, r) ==
    IF r.exc # "none" THEN NewResult(r.exc, r.msg, <<>>, PyNone, <<>>, d)
    ELSE IF r.path.t = "none" /\ ~truthy(r.prompt)
    THEN NewResult("PromptError", Chars("Provide a TEMPLATE and/or PROMPT_TEXT."),
                   <<>>, PyNone, <<>>, d)
    ELSE new_context(a, d, e, r, build_context(a.data_json, PyNone, a.stdin_json, d.files))

\* _new_prompt_impl(template, prompt_text, data_json, short_name,
\* subdir_override, dry_run, verbose)
new_prompt_impl(a, d, e) ==
    new_resolved(a, d, e, resolve_template_arg(a.template, a.prompt_text, d, e))

\* _do_prompt_impl behind render_file, r being what
\* render_file(prompt_path, data, phase="do") left with inside
\* `try ... except Exception`: the rendered text goes to standard output
do_rendered(path, d, context, r) ==
    IF r.exc # "none"
    THEN NewResult("PromptError", Chars("Render error: "), <<>>, context, path, d)
    ELSE NewResult("none", <<>>, r.body, context, path, d)

\* render_file(path, data, phase="do") of a file of the disk; a file that is
\* not UTF-8 raises UnicodeDecodeError
read_and_render(file, context, e) ==
    IF ~file.utf8 THEN [exc |-> "UnicodeDecodeError", fm |-> PyNone, body |-> <<>>]
    ELSE render_file(file.text, context, {"path", "data", "phase"}, e)

\* _do_prompt_impl behind build_context, c being what build_context left with
do_context(path, d, e, c) ==
    IF c.exc # "none"
    THEN NewResult(IF IsValueError(c.exc) THEN "PromptError" ELSE c.exc, c.msg,
                   <<>>, PyNone, path, d)
    ELSE do_rendered(path, d, c.v, read_and_render(d.files[path], c.v, e))

\* _do_prompt_impl(prompt_file, None, data_json, False, None, False, False),
\* prompt_file being a relative path that names no directory
do_prompt_impl(prompt_file, data_json, d, e) ==
    IF prompt_file \notin DOMAIN d.files
    THEN NewResult("PromptError", Chars("Prompt file not found: ") \o prompt_file,
                   <<>>, PyNone, prompt_file, d)
    ELSE do_context(prompt_file, d, e, build_context(data_json, PyNone, PyNone, d.files))

----------------------------------------------------------------------------
(* Runs of prompt new, and of prompt do on the file it wrote               *)

TagPrompt == Chars("<ARX [[prompt]] />")
TagKNew   == Chars("<ARX [[k]] :new />")
TagKDo    == Chars("<ARX [[k]] :do />")

\* a template that holds the prompt text, a ':new' tag and a ':do' tag
TwoPhaseBody == Chars("Task: ") \o TagPrompt \o <<"\n">> \o TagKNew \o <<" ">> \o TagKDo

\* the directory tree of a project: a template beside the working directory
\* and one under $ARX_AGENT_TOOLS/templates that names a context script
ToolsPath    == Chars("tools")
TemplatePath == Chars("tools/templates/vibes.md")
ProjectDisk ==
    [files |-> (Chars("t.md") :> TextFile(TwoPhaseBody))
               @@ (TemplatePath :>
                     TextFile(WithFrontMatter(Chars("script: ctx.sh\nsubdir: deltas"),
                                              TwoPhaseBody)))
               @@ (Chars("logo.png") :> [utf8 |-> FALSE, text |-> <<>>]),
     dirs  |-> {ToolsPath, Chars("tools/templates")}]

EnvTools == Chars("ARX_AGENT_TOOLS") :> ToolsPath

\* the prompts are written beside the templates of the working directory
EnvHere == EnvTools @@ (Chars("ARX_WORK_DOCS") :> <<".">>)

\* the first argument: omitted, empty, a template name, a template path, a
\* file that is no text, and texts that name no file
TemplateArgs == {PyNone, PyStr(<<>>), PyStr(Chars("vibes")), PyStr(Chars("t.md")),
                 PyStr(Chars("logo.png")), PyStr(Chars("Fix the bug, now!"))}

PromptArgs == {PyNone, PyStr(<<>>), PyStr(Chars("add tests"))}

DataArgs == {PyNone, PyStr(Chars("{\"k\": \"v\"}")), PyStr(Chars("{\"prompt\": \"other\"}")),
             PyStr(Chars("not valid json")), PyStr(Chars("5"))}

StdinArgs == {PyNone, PyStr(Chars("{\"prompt\": \"piped\", \"k\": \"s\"}"))}

\* how the context script ends
Procs == {ProcMissing, ProcDenied, ProcTimeout, ProcExit(1, <<>>),
          ProcExit(0, Chars("not valid json")), ProcExit(0, Chars("5")),
          ProcExit(0, Chars("{\"prompt\": \"scripted\"}"))}

\* --name and --subdir
NameArgs == {[short_name |-> PyNone, subdir |-> PyNone],
             [short_name |-> PyStr(Chars("note")), subdir |-> PyStr(Chars("deltas"))],
             [short_name |-> PyNone, subdir |-> PyStr(Chars("t.md"))]}

\* datetime.now().strftime("%y-%m-%d-%H")
Hour == Chars("26-01-05-10")

InitNew ==
    /\ \E t \in TemplateArgs, p \in PromptArgs, j \in DataArgs, i \in StdinArgs,
          n \in NameArgs, dry \in BOOLEAN, proc \in Procs :
         args = [template |-> t, prompt_text |-> p, data_json |-> j, stdin_json |-> i,
                 short_name |-> n.short_name, subdir |-> n.subdir, dry_run |-> dry,
                 proc |-> proc, now |-> Hour,
                 do_json |-> PyStr(Chars("{\"k\": \"late\"}"))]
    /\ environ \in {EnvEmpty, EnvTools, EnvHere}
    /\ disk = ProjectDisk
    /\ text = <<>>
    /\ data = CtxEmpty
    /\ pc = "ready"
    /\ op = "none"
    /\ out = <<>>
    /\ exc = "none"
    /\ ret = PyNone
    /\ msg = <<>>

\* what a run of prompt new or prompt do ends with: the path it names is
\* out, its context is ret, and what it wrote is in disk
Ends(name, r) == Stored(name, r.path, r.context, r.exc, r.msg, r.disk)

\* arx prompt new [TEMPLATE] [PROMPT_TEXT] --data ... --name ... --subdir ...
\* [--dry-run]
PromptNew ==
    /\ pc = "ready"
    /\ Ends("prompt_new", new_prompt_impl(args, disk, environ))

\* what a run of prompt do ends with: the rendered text, written to the
\* standard output, is out
DoEnds(r) == Stored("prompt_do", r.body, r.context, r.exc, r.msg, r.disk)

\* arx prompt do FILE --data-json ..., FILE being the path the run of
\* prompt new has printed
PromptDoWritten ==
    /\ Ran("prompt_new") /\ exc = "none" /\ ~args.dry_run
    /\ DoEnds(do_prompt_impl(out, args.do_json, disk, environ))

\* _resolve_template_arg(template, prompt_text): ret is the pair it returns
ResolveTemplateArg ==
    /\ pc = "ready"
    /\ LET r == resolve_template_arg(args.template, args.prompt_text, disk, environ)
       IN  Finished("resolve_template_arg", <<>>, PyList(<<r.path, r.prompt>>), r.exc, r.msg)

\* _run_context_script(script, context)
RunContextScript ==
    /\ pc = "ready"
    /\ LET r == run_context_script(Chars("ctx.sh"), args.proc)
       IN  Finished("run_context_script", <<>>, r.v, r.exc, r.msg)

NextNew == PromptNew \/ PromptDoWritten \/ ResolveTemplateArg \/ RunContextScript

SpecNew == InitNew /\ [][NextNew]_vars

----------------------------------------------------------------------------
(* The .env file                                                           *)

\* the characters at which str.splitlines() breaks a line ('\r\n' is one
\* break); of the rarer ones the model has the form feed
LineBreaks == {"\n", "\r", "\f"}

\* the end of the line of t that starts at i: the first position from i on
\* that holds a line break, or the position behind t
RECURSIVE BreakAt(_, _)
BreakAt(t, i) == IF i > Len(t) \/ t[i] \in LineBreaks THEN i ELSE BreakAt(t, i + 1)

\* the position behind the line break at j
AfterBreak(t, j) ==
    IF j < Len(t) /\ t[j] = "\r" /\ t[j + 1] = "\n" THEN j + 2 ELSE j + 1

\* text.splitlines(): the lines of t from position i on, without their breaks
RECURSIVE splitlines(_, _)
splitlines(t, i) ==
    IF i > Len(t) THEN <<>>
    ELSE <<Slice(t, i, BreakAt(t, i))>> \o splitlines(t, AfterBreak(t, BreakAt(t, i)))

\* the key of a stripped line in _parse_env_lines, None for a line that
\* sets no key: blank, a comment, or without '='
stripped_key(stripped) ==
    IF stripped # <<>> /\ stripped[1] # "#" /\ Find(stripped, "=", 1) <= Len(stripped)
    THEN PyStr(strip(Slice(stripped, 1, Find(stripped, "=", 1))))
    ELSE PyNone

env_key(raw) == stripped_key(strip(raw))

\* _parse_env_lines(lines): each key with the index of the last line that sets it
parse_env_lines(lines) ==
    [k \in {env_key(lines[i]).v : i \in {j \in 1..Len(lines) : env_key(lines[j]) # PyNone}} |->
        CHOOSE i \in 1..Len(lines) :
            /\ env_key(lines[i]) = PyStr(k)
            /\ \A j \in (i + 1)..Len(lines) : env_key(lines[j]) # PyStr(k)]

\* f"{k}={v}" of an item of values
Assignment(item) == item[1] \o <<"=">> \o item[2].v

\* the loop of _update_env_file over the items of values from i on: the
\* line of a key that is present is replaced
RECURSIVE rewrite_lines(_, _, _, _)
rewrite_lines(updated, key_to_line, values, i) ==
    IF i > Len(values) THEN updated
    ELSE rewrite_lines(IF values[i][1] \in DOMAIN key_to_line
                       THEN [updated EXCEPT ![key_to_line[values[i][1]]] = Assignment(values[i])]
                       ELSE updated,
                       key_to_line, values, i + 1)

\* to_append that holds the assignment of every key
to_append_all(key_to_line, values, i) ==
    [j \in 1..(Len(values) + 1 - i) |-> Assignment(values[j + i - 1])]

\* to_append of _update_env_file: the assignments of the keys that are absent
RECURSIVE to_append(_, _, _)
to_append(key_to_line, values, i) ==
    IF i > Len(values) THEN <<>>
    ELSE (IF values[i][1] \in DOMAIN key_to_line THEN <<>> ELSE <<Assignment(values[i])>>)
         \o to_append(key_to_line, values, i + 1)

\* the end of _update_env_file: a blank line goes before what is appended
\* unless the last line is blank already
extend_lines(updated, appended) ==
    IF appended = <<>> THEN updated
    ELSE IF updated # <<>> /\ strip(updated[Len(updated)]) # <<>>
    THEN updated \o <<<<>>>> \o appended
    ELSE updated \o appended

\* the lines _update_env_file writes, lines being those it has read
updated_lines(lines, values) ==
    extend_lines(rewrite_lines(lines, parse_env_lines(lines), values, 1),
                 to_append(parse_env_lines(lines), values, 1))

\* the text _update_env_file writes: "\n".join(updated) + "\n"
env_text(updated) == Join(updated, <<"\n">>) \o <<"\n">>

\* the .env file of the target directory
EnvPath == Chars(".env")

\* _update_env_file(env_path, values): [exc, disk]
update_env_file(d, env_path, values) ==
    IF env_path \notin DOMAIN d.files
    THEN WriteText(d, env_path, env_text(updated_lines(<<>>, values)))
    ELSE IF ~d.files[env_path].utf8 THEN [exc |-> "UnicodeDecodeError", disk |-> d]
    ELSE WriteText(d, env_path,
                   env_text(updated_lines(splitlines(d.files[env_path].text, 1), values)))

----------------------------------------------------------------------------
(* init                                                                    *)

\* what a step of init leaves with: [exc, disk]
Went(d) == [exc |-> "none", disk |-> d]

\* _mkdir(path): a path that exists, as a directory or as a file, is left alone
mkdir(r, path) ==
    IF r.exc # "none" \/ Exists(r.disk, path) THEN r ELSE MkdirParents(r.disk, path)

\* runner.mkdir for each of the names under base, from the i-th on
RECURSIVE mkdir_each(_, _, _, _)
mkdir_each(r, base, names, i) ==
    IF i > Len(names) THEN r
    ELSE mkdir_each(mkdir(r, PathJoin(base, names[i])), base, names, i + 1)

\* _write_file(path, content, skip_existing=True)
write_file(r, path, content) ==
    IF r.exc # "none" \/ Exists(r.disk, path) THEN r ELSE WriteText(r.disk, path, content)

\* _write_file that writes whether or not the file exists
write_file_always(r, path, content) ==
    IF r.exc # "none" THEN r ELSE WriteText(r.disk, path, content)

\* shutil.copy2(item, dst), dst being no directory: the bytes of item
\* replace what dst holds
copy2(r, item, dst) ==
    IF r.exc # "none" THEN r
    ELSE IF ~Exists(r.disk, Parent(dst)) /\ Parent(dst) # <<>>
    THEN [exc |-> "FileNotFoundError", disk |-> r.disk]
    ELSE Went([r.disk EXCEPT !.files =
                  [p \in DOMAIN @ \cup {dst} |->
                      IF p = dst THEN [utf8 |-> item.utf8, text |-> item.text] ELSE @[p]]])

\* _write_template_item(item, dst, context, runner): item.read_text raises
\* UnicodeDecodeError for a file that is not UTF-8
write_template_item(r, item, dst, context, e) ==
    IF item.utf8 THEN write_file(r, dst, render(item.text, context, e))
    ELSE copy2(r, item, dst)

AGENT_SUBDIRS == <<Chars("commands"), Chars("skills"), Chars("scripts"), Chars("hooks"),
                   Chars("agents")>>
AGENTS_TEMPLATE_SUBDIR == Chars("_arx_agent_tools.arx")
JUNK_FILES    == {Chars(".DS_Store"), Chars("Thumbs.db"), Chars(".AppleDouble")}
JUNK_SUFFIXES == {Chars(".pyc"), Chars(".pyo")}
JUNK_DIRS     == {Chars(".git"), Chars("__pycache__"), Chars(".mypy_cache"),
                  Chars(".ruff_cache")}

\* rel.parts
Parts(rel) == split(rel, "/")

\* _is_junk(rel)
is_junk(rel) ==
    \/ Basename(rel) \in JUNK_FILES
    \/ suffix(Basename(rel), Len(Basename(rel))) \in JUNK_SUFFIXES
    \/ \E i \in 1..Len(Parts(rel)) : Parts(rel)[i] \in JUNK_DIRS

\* name.replace(old, "."), from position i on
RECURSIVE ReplaceByDot(_, _, _)
ReplaceByDot(name, old, i) ==
    IF i > Len(name) THEN <<>>
    ELSE IF LitAt(name, i, old) THEN <<".">> \o ReplaceByDot(name, old, i + Len(old))
    ELSE <<name[i]>> \o ReplaceByDot(name, old, i + 1)

\* _strip_arx_marker(name)
strip_arx_marker(name) ==
    ReplaceByDot(ReplaceByDot(name, Chars(".ARX."), 1), Chars(".arx."), 1)

HasMarker(name) ==
    FindSub(name, Chars(".ARX."), 1) # 0 \/ FindSub(name, Chars(".arx."), 1) # 0

InAgentsSubdir(rel) == Parts(rel)[1] = AGENTS_TEMPLATE_SUBDIR

\* the destination of a template of _copy_templates: _route_template, and
\* the marker stripped from the name of a root-level template
template_dst(rel, agents_path) ==
    IF InAgentsSubdir(rel)
    THEN PathJoin(agents_path, Slice(rel, Len(AGENTS_TEMPLATE_SUBDIR) + 2, Len(rel) + 1))
    ELSE PathJoin(Parent(rel), strip_arx_marker(Basename(rel)))

\* the templates _copy_templates installs: no junk, and at root level only
\* those that carry the marker
Installed(rel) == ~is_junk(rel) /\ (InAgentsSubdir(rel) \/ HasMarker(Basename(rel)))

\* `if dst.parent != dst_base and not dst.parent.exists(): runner.mkdir(dst.parent)`
mkdir_parent(r, dst, dst_base) ==
    IF Parent(dst) # dst_base THEN mkdir(r, Parent(dst)) ELSE r

\* the loop of _copy_templates (copy mode) over the files of templates/ in
\* sorted order, from the i-th on
RECURSIVE copy_templates(_, _, _, _, _, _)
copy_templates(r, templates, i, agents_path, context, e) ==
    IF i > Len(templates) \/ r.exc # "none" THEN r
    ELSE IF ~Installed(templates[i].rel)
    THEN copy_templates(r, templates, i + 1, agents_path, context, e)
    ELSE copy_templates(
             write_template_item(
                 mkdir_parent(r, template_dst(templates[i].rel, agents_path),
                              IF InAgentsSubdir(templates[i].rel) THEN agents_path ELSE <<>>),
                 templates[i], template_dst(templates[i].rel, agents_path), context, e),
             templates, i + 1, agents_path, context, e)

\* the directories only a missing parent gets: runner.mkdir(path), and the
\* names under it when path did not exist before
setup_dir(r, path, names) ==
    IF r.exc # "none" THEN r
    ELSE IF Exists(r.disk, path) THEN mkdir(r, path)
    ELSE mkdir_each(mkdir(r, path), path, names, 1)

\* os.environ.get(name, default)
EnvOr(e, name, default) == IF name \in DOMAIN e THEN e[name] ELSE default

\* _resolve_dirs(root, None, None, None, None, interactive) without a
\* terminal, the paths relative to root: [agents, proj, proj_docs, work_docs]
resolve_dirs(e) ==
    [agents    |-> EnvOr(e, Chars("ARX_AGENT_TOOLS"), Chars("_agents")),
     proj      |-> EnvOr(e, Chars("ARX_TARGET_PROJ"), Chars("_project")),
     proj_docs |-> EnvOr(e, Chars("ARX_PROJ_DOCS"), Chars("_project/docs")),
     work_docs |-> EnvOr(e, Chars("ARX_WORK_DOCS"), Chars("_project/docs/agentrx"))]

\* the built-in texts of CLAUDE.md and CHAT_START.md, by their first lines
CLAUDE_MD_TEMPLATE  == Chars("# Claude Code Guidance\n")
CHAT_START_TEMPLATE == Chars("---\narx: config\n---\n# AgentRx Bootstrap Instructions\n")

\* where the target directory is: str(root)
RootName == Chars("/w")

\* the values _run_init writes to .env
env_values(dirs) ==
    <<<<Chars("ARX_PROJECT_ROOT"), PyStr(RootName)>>,
      <<Chars("ARX_AGENT_TOOLS"), PyStr(PathJoin(RootName, dirs.agents))>>,
      <<Chars("ARX_TARGET_PROJ"), PyStr(PathJoin(RootName, dirs.proj))>>,
      <<Chars("ARX_PROJ_DOCS"), PyStr(PathJoin(RootName, dirs.proj_docs))>>,
      <<Chars("ARX_WORK_DOCS"), PyStr(PathJoin(RootName, dirs.work_docs))>>>>

\* runner.update_env(root / ".env", values)
init_env(r, dirs) ==
    IF r.exc # "none" THEN r ELSE update_env_file(r.disk, EnvPath, env_values(dirs))

\* the end of _run_init: the bootstrap files, then .env
init_bootstrap(r, dirs) ==
    init_env(write_file(write_file(r, Chars("CLAUDE.md"), CLAUDE_MD_TEMPLATE),
                        Chars("CHAT_START.md"), CHAT_START_TEMPLATE),
             dirs)

\* the directories of _run_init: _setup_agent_tools (copy mode),
\* _setup_project_dir, runner.mkdir(proj_docs_path), _setup_docs_dir
init_dirs(d, dirs) ==
    setup_dir(mkdir(setup_dir(setup_dir(Went(d), dirs.agents, AGENT_SUBDIRS),
                              dirs.proj, <<Chars("src")>>),
                    dirs.proj_docs),
              dirs.work_docs, <<Chars("deltas"), Chars("vibes"), Chars("history")>>)

\* _run_init in copy mode, not a dry run, in a target directory that
\* exists: templates is None when no templates/ directory is found, else
\* its files in sorted order, each [rel, utf8, text]
run_init_in(d, templates, context, e, dirs) ==
    init_bootstrap(IF templates.t = "none" THEN init_dirs(d, dirs)
                   ELSE copy_templates(init_dirs(d, dirs), templates.v, 1, dirs.agents,
                                       context, e),
                   dirs)

run_init(d, templates, context, e) == run_init_in(d, templates, context, e, resolve_dirs(e))

----------------------------------------------------------------------------
(* Updates of a .env file                                                  *)

MaxEnvLines == 3   \* lines of the .env file before the update

\* lines of a .env file: assignments of managed and of other keys, written
\* plainly or with blanks, a comment that looks like one, a blank line and
\* a line that assigns nothing
EnvLines == {Chars("ARX_A=old"), Chars(" ARX_A = x"), Chars("#ARX_A=c"),
             Chars("ARX_B=b"), Chars("OTHER=1"), <<>>, Chars("note")}

\* the file ends with or without a line break
EnvTexts ==
    {body \o ending : body \in Bodies(EnvLines, {<<"\n">>, Chars("\r\n")}, MaxEnvLines),
                      ending \in {<<>>, <<"\n">>}}

\* the values of an update, in the order of the mapping
EnvValues ==
    {PyDict(<<<<Chars("ARX_A"), PyStr(Chars("new"))>>, <<Chars("ARX_B"), PyStr(Chars("two"))>>>>),
     PyDict(<<<<Chars("ARX_C"), PyStr(Chars("/x y"))>>, <<Chars("ARX_A"), PyStr(<<>>)>>>>)}

\* the directory before the update: without .env, or with one
EnvDisk(file) == [files |-> (EnvPath :> file), dirs |-> {}]

InitEnvFile ==
    /\ \/ text \in EnvTexts /\ disk = EnvDisk(TextFile(text))
       \/ text = <<>> /\ disk \in {NoDisk, EnvDisk([utf8 |-> FALSE, text |-> <<>>])}
    /\ data \in EnvValues
    /\ environ = EnvEmpty
    /\ args = NoArgs
    /\ pc = "ready"
    /\ op = "none"
    /\ out = <<>>
    /\ exc = "none"
    /\ ret = PyNone
    /\ msg = <<>>

\* what an update of .env ends with: out is the text of the file after the
\* first update
EnvUpdated(name, r, once) == Stored(name, once, PyNone, r.exc, <<>>, r.disk)

FileText(d, path) ==
    IF path \in DOMAIN d.files /\ d.files[path].utf8 THEN d.files[path].text ELSE <<>>

\* _update_env_file(root / ".env", values)
UpdateEnvFile ==
    /\ pc = "ready"
    /\ EnvUpdated("update_env_file", update_env_file(disk, EnvPath, data.v),
                  FileText(update_env_file(disk, EnvPath, data.v).disk, EnvPath))

\* the same update on the file the first one has written
UpdateEnvAgain ==
    /\ Ran("update_env_file") /\ exc = "none"
    /\ EnvUpdated("update_env_again", update_env_file(disk, EnvPath, data.v), out)

NextEnvFile == UpdateEnvFile \/ UpdateEnvAgain

SpecEnvFile == InitEnvFile /\ [][NextEnvFile]_vars

----------------------------------------------------------------------------
(* Runs of init on one target directory                                    *)

MaxRuns  == 2   \* runs of init
MaxEdits == 1   \* changes the user makes between the runs

\* a file that is no UTF-8 text, text naming its bytes
BinaryFile(bytes) == [utf8 |-> FALSE, text |-> bytes]

Template(rel, file) == [rel |-> rel, utf8 |-> file.utf8, text |-> file.text]

\* the files of a templates/ directory in the order of sorted(rglob("*")):
\* junk, a root-level template with the marker, one without, templates of
\* the agent tools, a template in a directory, and an image
TemplateTree ==
    <<Template(Chars(".DS_Store"), BinaryFile(Chars("junk"))),
      Template(Chars("AGENTS.ARX.md"), TextFile(Chars("# Agents of <ARX [[name | \"x\"]] />\n"))),
      Template(Chars("README.md"), TextFile(Chars("about templates\n"))),
      Template(Chars("_arx_agent_tools.arx/commands/agentrx/go.md"), TextFile(Chars("go\n"))),
      Template(Chars("_arx_agent_tools.arx/hooks/icon.bin"), BinaryFile(Chars("icon-1"))),
      Template(Chars("docs/guide.arx.md"), TextFile(Chars("guide\n"))),
      Template(Chars("logo.ARX.png"), BinaryFile(Chars("logo-1")))>>

\* the same directory with text templates only
TextTemplates == SelectSeq(TemplateTree, LAMBDA item : item.utf8)

TemplateTrees == {PyNone, PyList(TemplateTree), PyList(TextTemplates)}

\* the files init may install: the bootstrap files and the destinations of
\* the templates
BootstrapFiles == {Chars("CLAUDE.md"), Chars("CHAT_START.md")}
TemplateDestinations ==
    {template_dst(TemplateTree[i].rel, Chars("_agents")) :
        i \in {j \in 1..Len(TemplateTree) : Installed(TemplateTree[j].rel)}}

\* what the user may have put where init installs a file
UserFiles == {TextFile(Chars("mine\n")), BinaryFile(Chars("mine"))}
UserPaths == {Chars("CLAUDE.md"), Chars("AGENTS.md"), Chars("logo.png"),
              Chars("_agents/hooks/icon.bin")}

\* the target directory before the first run: some of the user's files, the
\* directories above them, and a .env or none
UserDisk(paths, file, env) ==
    [files |-> [p \in paths \cup env |->
                   IF p = EnvPath THEN TextFile(Chars("OTHER=1\nARX_AGENT_TOOLS=old\n"))
                   ELSE file],
     dirs  |-> UNION {Ancestors(Parent(p)) \ {<<>>} : p \in paths}]

InitInit ==
    /\ \E paths \in SUBSET UserPaths, file \in UserFiles, env \in {{}, {EnvPath}} :
         disk = UserDisk(paths, file, env)
    /\ \E templates \in TemplateTrees :
         args = [templates |-> templates, runs |-> 0, edits |-> 0, before |-> NoDisk]
    /\ data \in {CtxEmpty, PyDict(<<<<Chars("name"), PyStr(Chars("demo"))>>>>)}
    /\ environ = EnvEmpty
    /\ text = <<>>
    /\ pc = "ready"
    /\ op = "none"
    /\ out = <<>>
    /\ exc = "none"
    /\ ret = PyNone
    /\ msg = <<>>

\* what a run of init ends with: args.before is the file system it started on
InitEnds(r) ==
    /\ disk' = r.disk
    /\ exc' = r.exc
    /\ args' = [args EXCEPT !.runs = @ + 1, !.before = disk]
    /\ pc' = "done"
    /\ op' = "init"
    /\ UNCHANGED <<text, data, environ, out, ret, msg>>

\* arx init TARGET_DIR --data ..., in copy mode and not a dry run
RunInit ==
    /\ args.runs < MaxRuns
    /\ InitEnds(run_init(disk, args.templates, data, environ))

\* between two runs the user writes a file of their own where init installs one
UserWrites ==
    /\ pc = "done" /\ args.edits < MaxEdits
    /\ \E p \in UserPaths, file \in UserFiles :
         /\ Exists(disk, Parent(p)) \/ Parent(p) = <<>>
         /\ disk' = [disk EXCEPT !.files =
                        [q \in DOMAIN @ \cup {p} |-> IF q = p THEN file ELSE @[q]]]
    /\ args' = [args EXCEPT !.edits = @ + 1]
    /\ pc' = "ready"
    /\ op' = "edit"
    /\ UNCHANGED <<text, data, environ, out, exc, ret, msg>>

\* between two runs the user removes a file that init has installed
UserRemoves ==
    /\ pc = "done" /\ args.edits < MaxEdits
    /\ \E p \in (BootstrapFiles \cup TemplateDestinations) \cap DOMAIN disk.files :
         disk' = [disk EXCEPT !.files = [q \in DOMAIN @ \ {p} |-> @[q]]]
    /\ args' = [args EXCEPT !.edits = @ + 1]
    /\ pc' = "ready"
    /\ op' = "edit"
    /\ UNCHANGED <<text, data, environ, out, exc, ret, msg>>

NextInit == RunInit \/ UserWrites \/ UserRemoves

SpecInit == InitInit /\ [][NextInit]_vars

----------------------------------------------------------------------------
(* Claims                                                                  *)


StartsWith(t, pre) == LitAt(t, 1, pre)

Contains(t, sub) ==
    \E i \in 1..(Len(t) - Len(sub) + 1) : LitAt(t, i, sub)

\* C1: a variable tag whose key is absent from the context and that gives no
\* default appears in the output of render byte-identical to its input form,
\* and render does not raise.  (<ARX [[m]] /> is such a tag in every context
\* of the model.)
C1_UnresolvedTagVerbatim ==
    (Ran("render") /\ Contains(text, TagM))
        => (exc = "none" /\ Contains(out, TagM))

\* C2: in a render run with a target phase, a tag whose phase marker differs
\* from the target phase appears in the output byte-identical, whatever
\* stands around it.
C2_OffPhaseTagUntouched ==
    /\ (Ran("new") /\ Contains(text, TagBDo))
           => (exc = "none" /\ Contains(out, TagBDo))
    /\ (Ran("do") /\ Contains(text, TagANew))
           => (exc = "none" /\ Contains(out, TagANew))

\* C3: in a render run with target phase new, a ':new' tag whose key resolves
\* is replaced by the string form of the value; the body
\* '<ARX [[a]] :new />bob<ARX [[b]] :do />' with a = X yields
\* 'Xbob<ARX [[b]] :do />'.
C3_PhaseTagResolved ==
    /\ (Ran("new") /\ data = CtxFull /\ StartsWith(text, TagANew))
           => (exc = "none" /\ StartsWith(out, Chars("X")))
    /\ (Ran("new") /\ data = CtxFull /\ text = TagANew \o Bob \o TagBDo)
           => out = Chars("Xbob") \o TagBDo

\* C4: a tag with no phase marker whose key resolves is substituted in every
\* render: at phase new, at phase do, and through render(text, context).
C4_UnphasedTagAlwaysResolved ==
    (pc = "done" /\ op \in {"render", "new", "do"}
        /\ data = CtxFull /\ StartsWith(text, TagA))
        => (exc = "none" /\ StartsWith(out, Chars("X")))

EndsWith(t, suf) == Len(suf) <= Len(t) /\ LitAt(t, Len(t) - Len(suf) + 1, suf)

HasKey(d, key) == d.t = "dict" /\ DictHas(d, key)

\* C5: a tag [[key | default]] is replaced by the default literal when the key
\* does not resolve and by the resolved value when it does.  (Stated for the
\* last tag of the body: the output then ends with the replacement.)
C5_DefaultOnlyOnMiss ==
    /\ (Ran("render") /\ EndsWith(text, TagMDef))
           => EndsWith(out, Chars("d"))
    /\ (Ran("render") /\ EndsWith(text, TagADef))
           => EndsWith(out, IF HasKey(data, Chars("a")) THEN Chars("X") ELSE Chars("d"))

\* C6: the default is the text after the first '|', with exactly one layer of
\* matching quote characters stripped: of ""x"" the inner pair stays, and of
\* "x' (non-matching quotes) both characters stay.
C6_OneQuoteLayerStripped ==
    /\ (Ran("render") /\ text = TagQuote2) => out = Chars("\"x\"")
    /\ (Ran("render") /\ text = TagQuoteX) => out = Chars("\"x'")

\* C7: a tag whose key starts with 'env.' is replaced by the value of the
\* environment variable when it is set; when it is unset it is replaced by
\* the default if one is given and is left unchanged otherwise; the context
\* (which holds env.FOO and env.UN in CtxFull) is not consulted.
C7_EnvKeyFromEnvironment ==
    /\ (Ran("render") /\ EndsWith(text, TagEnvFoo))
           => EndsWith(out, EnvGet(environ, Chars("FOO"), TagEnvFoo))
    /\ (Ran("render") /\ EndsWith(text, TagEnvUn)) => EndsWith(out, TagEnvUn)
    /\ (Ran("render") /\ EndsWith(text, TagEnvDef)) => EndsWith(out, Chars("d"))

\* the positions of t that hold c
Positions(t, c) == {i \in 1..Len(t) : t[i] = c}

\* the expansion of the one token that starts at i, within t
ExpandedAt(t, i, e) ==
    LET jb == ENV_BRACED_RE(t, i)
        jr == ENV_BARE_RE(t, i)
    IN  IF jb # 0
        THEN Slice(t, 1, i) \o EnvGet(e, Slice(t, i + 2, jb - 1), Slice(t, i, jb))
             \o Slice(t, jb, Len(t) + 1)
        ELSE IF jr # 0
        THEN Slice(t, 1, i) \o EnvGet(e, Slice(t, i + 1, jr), Slice(t, i, jr))
             \o Slice(t, jr, Len(t) + 1)
        ELSE t

\* C8: an occurrence of ${NAME} or $NAME is replaced by the variable's value
\* when the variable is set and is left as written when it is unset.  (Stated
\* for a text that holds one '$': the output is the text with that one
\* occurrence replaced.)
C8_EnvOccurrenceReplaced ==
    (Ran("expand_env") /\ Cardinality(Positions(text, "$")) = 1)
        => out = ExpandedAt(text, CHOOSE i \in Positions(text, "$") : TRUE, environ)

\* every occurrence of the original text replaced once, in one pass from left
\* to right, nothing that a replacement brought in being looked at again
RECURSIVE OnePass(_, _, _)
OnePass(t, i, e) ==
    IF i > Len(t) THEN <<>>
    ELSE LET jb == ENV_BRACED_RE(t, i)
             jr == ENV_BARE_RE(t, i)
         IN  IF jb # 0
             THEN EnvGet(e, Slice(t, i + 2, jb - 1), Slice(t, i, jb)) \o OnePass(t, jb, e)
             ELSE IF jr # 0
             THEN EnvGet(e, Slice(t, i + 1, jr), Slice(t, i, jr)) \o OnePass(t, jr, e)
             ELSE <<t[i]>> \o OnePass(t, i + 1, e)

\* C9: environment expansion never substitutes twice: what replaced a braced
\* occurrence is not expanded again by the bare pass, so the result is the
\* original text with each of its occurrences replaced at most once.
C9_NoDoubleSubstitution ==
    Ran("expand_env") => out = OnePass(text, 1, environ)

\* some '<ARX' of t is followed by a '/>'
HasTag(t) ==
    \E i \in 1..Len(t) : \E j \in (i + 4)..Len(t) :
        LitAt(t, i, Chars("<ARX")) /\ LitAt(t, j, <<"/", ">">>)

\* some ${NAME} or $NAME of t names a variable that is set
NamesSetVar(t, e) ==
    \E i \in 1..Len(t) :
        \/ ENV_BRACED_RE(t, i) # 0
           /\ Slice(t, i + 2, ENV_BRACED_RE(t, i) - 1) \in DOMAIN e
        \/ ENV_BARE_RE(t, i) # 0
           /\ Slice(t, i + 1, ENV_BARE_RE(t, i)) \in DOMAIN e

\* C10, as claimed: render returns every text without an <ARX ... /> tag
\* unchanged, for every context.
C10_NoTagNoChange ==
    (Ran("render") /\ ~HasTag(text)) => out = text

\* C10, amended: render returns unchanged every text that holds no
\* <ARX ... /> tag and no ${NAME} or $NAME naming a set environment variable.
C10_NoTagNoSetVarNoChange ==
    (Ran("render") /\ ~HasTag(text) /\ ~NamesSetVar(text, environ))
        => (exc = "none" /\ out = text)

\* C10, witness: a rendered text without a tag that holds an unset $UN and an
\* unclosed '<ARX [[a]]' while other variables are set and a is in the context.
C10_Witness ==
    /\ Ran("render")
    /\ ~HasTag(text) /\ ~NamesSetVar(text, environ)
    /\ Contains(text, Chars("$UN")) /\ Contains(text, Chars("<ARX [[a]]"))
    /\ environ = EnvFull /\ data = CtxFull
    /\ out = text

\* Every tag of t from position i on resolves, to a value holding no
\* character of banned, and no character of t outside the tags is in banned
RECURSIVE TagsResolve(_, _, _, _, _)
TagsResolve(t, i, d, e, banned) ==
    IF i > Len(t) THEN TRUE
    ELSE LET m == VAR_TAG_RE(t, i)
         IN  IF m.ok
             THEN LET resolved == resolve_expr(Slice(t, m.gs, m.ge), d, e)
                  IN  /\ resolved.t # "none"
                      /\ \A k \in 1..Len(resolved.v) : resolved.v[k] \notin banned
                      /\ TagsResolve(t, m.end, d, e, banned)
             ELSE t[i] \notin banned /\ TagsResolve(t, i + 1, d, e, banned)

Resolvable(t, d, e) == TagsResolve(expand_env(t, e), 1, OrEmpty(d), e, {})
ResolvesPlain(t, d, e) ==
    TagsResolve(expand_env(t, e), 1, OrEmpty(d), e, {"<", "$"})

\* C11 as stated: for every text made of resolvable phase-less tags and every
\* context, rendering the output of render again gives the same output, also
\* when a resolved value holds tag syntax or a $NAME token.
C11_RenderFixedPoint ==
    (Ran("render_twice") /\ Resolvable(text, data, environ))
        => out = render(text, data, environ)

\* C11, amended: for every text made of phase-less tags that all resolve to
\* values holding neither '<' nor '$', rendering the output of render again
\* gives the same output.
C11_RenderFixedPointOnPlainValues ==
    (Ran("render_twice") /\ ResolvesPlain(text, data, environ))
        => (exc = "none" /\ out = render(text, data, environ))

C11_Witness ==
    /\ Ran("render_twice")
    /\ text = TagA \o Bob \o TagEnvFoo
    /\ data = CtxTwice /\ environ = EnvPlain
    /\ ResolvesPlain(text, data, environ)
    /\ out = Chars("Xbobbar")

\* The walk of a dotted path as the specification words it: [found, value]
Unresolved == [found |-> FALSE, value |-> PyNone]

RECURSIVE PathValue(_, _, _)
PathValue(node, parts, i) ==
    IF i > Len(parts) THEN [found |-> TRUE, value |-> node]
    ELSE IF node.t = "dict"
    THEN IF DictHas(node, parts[i])
         THEN PathValue(DictGet(node, parts[i]), parts, i + 1)
         ELSE Unresolved
    ELSE IF node.t = "list"
    THEN IF IsIntLit(parts[i]) /\ IntVal(parts[i]) \in 0..(Len(node.v) - 1)
         THEN PathValue(node.v[IntVal(parts[i]) + 1], parts, i + 1)
         ELSE Unresolved
    ELSE Unresolved

\* C12: a dotted path is walked left to right, by key at a mapping and by
\* integer index at a sequence; an absent key, a non-numeric segment at a
\* sequence, an index outside the sequence's range and a segment below a
\* scalar yield 'unresolved' (None), anything else the value reached.
C12_PathWalk ==
    Ran("resolve_path") =>
        LET want == PathValue(data, split(text, "."), 1)
        IN  ret = IF want.found THEN want.value ELSE PyNone

\* C13: a key present with a null value is a found value, substituted in its
\* string form; only an absent key is 'unresolved' (tag preserved when it has
\* no default).
C13_NullIsFound ==
    Ran("render_path_tag") =>
        LET want == PathValue(data, split(text, "."), 1)
        IN  /\ (want.found /\ want.value = PyNone) => out = py_str(PyNone)
            /\ (data.t = "dict" /\ ~DictHas(data, text)) => out = PathTag(text)

\* C14: a template made of structural tags (expression beginning with one of
\* # ^ * @ /, with or without whitespace after '[[', with or without a '|')
\* and plain text comes out of render, and of its tag pass, byte for byte,
\* for every context.  (The calls that name a phase raise: see C2.)
C14_StructuralTagsPassThrough ==
    (pc = "done" /\ op \in {"render", "render_var_tags"})
        => (exc = "none" /\ out = text)

\* the file of the round-trip example: front matter {k: v}, body <ARX [[k]] />
FileKV == WithFrontMatter(Chars("k: v"), TagK)
FmKV   == PyDict(<< <<Chars("k"), PyStr(Chars("v"))>> >>)

\* what the block of a file parses to: [exc, v]
ParsedBlock(t) == yaml_safe_load(FM_GROUP(t))
IsMapping(r)   == ~r.exc /\ r.v.t = "dict" /\ r.v.v # <<>>

\* C15: render_file returns the front matter as parsed and never resolves a
\* tag from it: the body is rendered from the caller's context alone, so a
\* tag whose key is only in the front matter stays unresolved.
C15_FrontMatterNotMerged ==
    (Ran("render_file") /\ FM_RE(text) # 0 /\ IsMapping(ParsedBlock(text))) =>
        /\ exc = "none"
        /\ ret = ParsedBlock(text).v
        /\ out = render(Slice(text, FM_RE(text), Len(text) + 1), data, environ)
        /\ (EndsWith(text, TagK) /\ HasKey(ret, Chars("k"))
               /\ ~HasKey(data, Chars("k"))) => out = TagK

C15_Witness ==
    /\ Ran("render_file")
    /\ text = WithFrontMatter(Chars("a: X\nk: v"), TagK)
    /\ data = CtxFull
    /\ HasKey(ret, Chars("k")) /\ HasKey(ret, Chars("a"))
    /\ out = TagK

\* C16 as stated: render_file on the file with front matter {k: v} and body
\* <ARX [[k]] />, with the empty context, yields the body 'v' and returns the
\* front matter {k: v}.
C16_RoundTripResolvesFromFrontMatter ==
    (Ran("render_file") /\ text = FileKV /\ data = CtxEmpty)
        => (out = Chars("v") /\ ret = FmKV)

\* C16, amended: that call yields the body <ARX [[k]] /> unchanged, since k
\* is not in the context, and returns the front matter {k: v}.
C16_RoundTripKeepsTag ==
    (Ran("render_file") /\ text = FileKV /\ data = CtxEmpty)
        => (exc = "none" /\ out = TagK /\ ret = FmKV)

C16_Witness ==
    /\ Ran("render_file")
    /\ text = FileKV /\ data = CtxEmpty
    /\ ret = FmKV /\ out = TagK

\* C17: extraction never raises; when the leading block does not parse as a
\* mapping the result is an empty mapping or none, together with the original
\* text unchanged.
C17_BadBlockLeavesText ==
    (Ran("strip_front_matter") /\ FM_RE(text) # 0
        /\ ~IsMapping(ParsedBlock(text)))
        => (exc = "none" /\ ret \in {PyNone, PyDict(<<>>)} /\ out = text)

\* What each source of build_context holds, read on its own.  A source is
\* given when build_context reads it: a non-empty argument, non-blank for stdin
NotGiven  == [given |-> FALSE, exc |-> "none", v |-> PyDict(<<>>)]
Given(r)  == [given |-> TRUE, exc |-> r.exc, v |-> r.v]
FromFile  == IF truthy(args.data_file)
             THEN Given(load_data_file(args.data_file.v, args.files)) ELSE NotGiven
FromInline == IF truthy(args.data_json)
              THEN Given(parse_json_arg(Chars("--data"), args.data_json.v)) ELSE NotGiven
FromStdin == IF truthy(args.stdin_json) /\ strip(args.stdin_json.v) # <<>>
             THEN Given(parse_json_arg(Chars("stdin"), args.stdin_json.v)) ELSE NotGiven

AllLoad == FromFile.exc = "none" /\ FromInline.exc = "none" /\ FromStdin.exc = "none"
KeysOf(d) == {d.v[i][1] : i \in 1..Len(d.v)}

\* the value of key in the source of highest priority that defines it
Winner(key) ==
    IF DictHas(FromStdin.v, key) THEN DictGet(FromStdin.v, key)
    ELSE IF DictHas(FromInline.v, key) THEN DictGet(FromInline.v, key)
    ELSE DictGet(FromFile.v, key)

Names(source) ==
    \E i \in 1..(Len(msg) - Len(source) + 1) : LitAt(msg, i, source)

FileMalformed ==
    /\ truthy(args.data_file)
    /\ \/ args.data_file.v \notin DOMAIN args.files
       \/ ~args.files[args.data_file.v].utf8
       \/ IF lower(suffix(args.data_file.v, Len(args.data_file.v)))
                \in {Chars(".yaml"), Chars(".yml")}
          THEN yaml_safe_load(args.files[args.data_file.v].text).exc
          ELSE json_loads(args.files[args.data_file.v].text).exc
InlineMalformed == FromInline.given /\ json_loads(args.data_json.v).exc
StdinMalformed  == FromStdin.given /\ json_loads(args.stdin_json.v).exc

\* C19: when a source that is given is malformed (invalid JSON or YAML, or a
\* path that does not exist) the call fails with an error that names a source
\* that cannot be loaded, and returns no context.
C19_MalformedSourceNamed ==
    (Ran("build_context") /\ (FileMalformed \/ InlineMalformed \/ StdinMalformed)) =>
        /\ exc # "none" /\ ret = PyNone
        /\ \/ FromFile.exc # "none" /\ Names(args.data_file.v)
           \/ FromInline.exc # "none" /\ Names(Chars("--data"))
           \/ FromStdin.exc # "none" /\ Names(Chars("stdin"))

\* C20: the merge is shallow: a top-level key that two sources define with
\* nested mappings holds exactly the value of the higher-priority source.
IsNested(src, key) == DictHas(src.v, key) /\ DictGet(src.v, key).t = "dict"

C20_ShallowMerge ==
    (Ran("build_context") /\ AllLoad) =>
        \A key \in KeysOf(ret) :
            /\ (IsNested(FromFile, key) /\ IsNested(FromInline, key)
                   /\ ~DictHas(FromStdin.v, key))
                 => DictGet(ret, key) = DictGet(FromInline.v, key)
            /\ ((IsNested(FromFile, key) \/ IsNested(FromInline, key))
                   /\ IsNested(FromStdin, key))
                 => DictGet(ret, key) = DictGet(FromStdin.v, key)

C20_Witness ==
    /\ Ran("build_context") /\ AllLoad
    /\ IsNested(FromFile, Chars("k")) /\ IsNested(FromInline, Chars("k"))
    /\ DictHas(DictGet(FromFile.v, Chars("k")), Chars("z"))
    /\ ~FromStdin.given
    /\ DictGet(ret, Chars("k")) = PyDict(<< <<Chars("x"), PyInt(9)>> >>)

\* C30: every failure of build_context is a ValueError, for every input
\* string, valid JSON that is no object included, so that the callers'
\* `except ValueError` turns it into a PromptError.
C30_FailuresAreValueErrors ==
    (Ran("build_context") /\ exc # "none") => IsValueError(exc)

\* the tags of ps substituted one by one, each alone, and joined again
EachAlone(ps, sep, d, e) ==
    Join([i \in 1..Len(ps) |-> render_var_tags(ps[i], d, e)], sep)

\* C29: tag substitution replaces each tag independently and touches nothing
\* else: a matched span covers one tag only, so the output of a body made of
\* tags is the body with each tag replaced by what that tag alone becomes,
\* every neighbouring tag and separator unchanged and in its place.
C29_TagsReplacedIndependently ==
    Ran("render_var_tags") =>
        \A ps \in UNION {[1..k -> TagPieces] : k \in 0..MaxParts}, sep \in Seps :
            text = Join(ps, sep) => out = EachAlone(ps, sep, data, environ)

\* what the tag of key becomes: the text value of key in d, the tag itself
\* when d has no such key
CtxValue(d, key, tag) ==
    IF DictHas(d, key) /\ DictGet(d, key).t = "str" THEN DictGet(d, key).v ELSE tag

\* what a piece of TwicePieces becomes when the environment is expanded in
\* the template text only, before its tag is evaluated
ExpandedFirst(p, d, e) ==
    CASE p = TagA      -> CtxValue(d, Chars("a"), p)
      [] p = TagB      -> CtxValue(d, Chars("b"), p)
      [] p = TagT      -> CtxValue(d, Chars("t"), p)
      [] p = TagC      -> CtxValue(d, Chars("c"), p)
      [] p = TagH      -> CtxValue(d, Chars("h"), p)
      [] p = TagI      -> CtxValue(d, Chars("i"), p)
      [] p = TagMDef   -> <<"d">>
      [] p = TagEnvFoo -> EnvGet(e, Chars("FOO"), p)
      [] p = TagEnvA   -> EnvGet(e, Chars("A"), p)
      [] p = TagEnvDol -> EnvGet(e, Chars("A"), Chars("$A"))

\* C27: within one render the environment is expanded over the template text
\* before the tags are substituted and not again afterwards: a $NAME token
\* of a value taken from the context comes out unexpanded, a $NAME token
\* written in the template, in a default literal too, is expanded before
\* its tag is evaluated.
C27_EnvBeforeTagsOnly ==
    Ran("render") =>
        \A ps \in UNION {[1..k -> TwicePieces] : k \in 0..MaxTwice}, sep \in Seps :
            text = Join(ps, sep) =>
                out = Join([i \in 1..Len(ps) |-> ExpandedFirst(ps[i], data, environ)], sep)

\* C27, witness: the value of c, '$FOO', substituted while FOO is set, next
\* to a default literal '$A' that is expanded to the value of A.
C27_Witness ==
    /\ Ran("render")
    /\ text = TagC \o TagEnvDol
    /\ data = CtxTwice /\ environ = EnvPlain
    /\ out = Chars("$FOObaz")

\* the files _find_template looks for under a name: the name itself, the
\* name with .md when it has no suffix, and both under every search directory
Candidates(name, e) ==
    {name}
    \cup (IF suffix(name, Len(name)) = <<>> THEN {name \o Chars(".md")} ELSE {})
    \cup UNION {{PathJoin(template_search_dirs(e)[i], name),
                 PathJoin(template_search_dirs(e)[i], name \o Chars(".md"))} :
                   i \in 1..Len(template_search_dirs(e))}

\* the name resolves to an existing template; the empty name is the working
\* directory
ResolvesTo(name, d, e) ==
    {p \in Candidates(name, e) : Exists(d, IF p = <<>> THEN <<".">> ELSE p)}

\* the three outcomes of _resolve_template_arg(template, prompt_text)
ThreeOutcomes(template, prompt_text, d, e) ==
    \/ /\ ResolvesTo(template.v, d, e) # {}
       /\ exc = "none"
       /\ ret.v[1].t = "str" /\ ret.v[1].v \in ResolvesTo(template.v, d, e)
       /\ ret.v[2] = prompt_text
    \/ /\ ResolvesTo(template.v, d, e) = {}
       /\ prompt_text = PyNone
       /\ exc = "none"
       /\ ret = PyList(<<PyNone, template>>)
    \/ /\ ResolvesTo(template.v, d, e) = {}
       /\ prompt_text # PyNone
       /\ exc = "PromptError"
       /\ StartsWith(msg, Chars("Template not found"))

\* C23 as stated: for a first argument that is given, _resolve_template_arg
\* ends in one of three ways: the template path with the prompt text when
\* the argument resolves, (None, first argument) when it does not and no
\* prompt text is given, PromptError 'Template not found' when it does not
\* and prompt text is given.
C23_ThreeOutcomes ==
    (Ran("resolve_template_arg") /\ args.template # PyNone)
        => ThreeOutcomes(args.template, args.prompt_text, disk, environ)

\* C23 amended: the three outcomes are those of a first argument that is
\* not empty; an empty first argument, like an omitted one, is not looked
\* up and returns (None, prompt text) unchanged, without PromptError.
C23_ThreeOutcomesNonEmpty ==
    Ran("resolve_template_arg") =>
        IF truthy(args.template)
        THEN ThreeOutcomes(args.template, args.prompt_text, disk, environ)
        ELSE exc = "none" /\ ret = PyList(<<PyNone, args.prompt_text>>)

C23_Witness ==
    /\ Ran("resolve_template_arg")
    /\ args.template = PyStr(Chars("vibes"))
    /\ args.prompt_text = PyStr(Chars("add tests"))
    /\ environ = EnvTools
    /\ exc = "none"
    /\ ret = PyList(<<PyStr(TemplatePath), PyStr(Chars("add tests"))>>)

\* C22: in a run of prompt new that is given PROMPT_TEXT and gets as far as
\* its context, the context maps 'prompt' to PROMPT_TEXT, which is what
\* [[prompt]] resolves to inside the template, whatever --data and the
\* standard input hold.
C22_PromptIsPromptText ==
    (Ran("prompt_new") /\ truthy(args.prompt_text) /\ ret.t = "dict")
        => DictHas(ret, Chars("prompt")) /\ DictGet(ret, Chars("prompt")) = args.prompt_text

\* the context script is missing, runs into the timeout, exits non-zero, or
\* prints text that is no JSON
ScriptFails(proc) ==
    \/ proc.kind \in {"missing", "timeout"}
    \/ proc.kind = "exit" /\ (proc.code # 0 \/ json_loads(proc.stdout).exc)

C24_DryRunWritesNothing ==
    (Ran("prompt_new") /\ args.dry_run) => disk = ProjectDisk

\* a dry run that succeeds and names the file it would have written
C24_Witness ==
    /\ Ran("prompt_new")
    /\ args.dry_run
    /\ args.template = PyStr(Chars("Fix the bug, now!"))
    /\ args.prompt_text = PyNone
    /\ args.short_name = PyNone /\ args.subdir = PyNone
    /\ environ = EnvHere
    /\ exc = "none"
    /\ out = Chars("vibes/fix_the_bug_26-01-05-10.md")
    /\ disk = ProjectDisk

\* a run of prompt new on the template t.md, which holds [[prompt]], a
\* ':new' tag and a ':do' tag for the key k, with k in the --data of the run
TwoPhaseRun ==
    /\ args.template = PyStr(Chars("t.md"))
    /\ args.prompt_text = PyStr(Chars("add tests"))
    /\ args.data_json = PyStr(Chars("{\"k\": \"v\"}"))
    /\ args.stdin_json = PyNone
    /\ args.subdir = PyNone
    /\ ~args.dry_run

\* C28: prompt new on a template with a ':new' and a ':do' tag writes a
\* file in which the ':new' tag is resolved from the context of that run
\* and the ':do' tag stands byte-identical; prompt do on that file then
\* resolves the ':do' tag from its own context.
C28_TwoPhaseProtocol ==
    /\ (Ran("prompt_new") /\ TwoPhaseRun)
           => /\ exc = "none"
              /\ out \in DOMAIN disk.files
              /\ disk.files[out].text = Chars("Task: add tests\nv ") \o TagKDo
    /\ (Ran("prompt_do") /\ TwoPhaseRun)
           => exc = "none" /\ out = Chars("Task: add tests\nv late")

\* the lines of the .env file before and after the update
LinesBefore == splitlines(text, 1)
LinesAfter  == splitlines(out, 1)

\* the lines that set key k
LinesOf(lines, k) == {i \in 1..Len(lines) : env_key(lines[i]) = PyStr(k)}

ManagedKeys == {data.v[i][1] : i \in 1..Len(data.v)}

\* the line that an update writes for the i-th key of values
NewLine(i) == data.v[i][1] \o <<"=">> \o data.v[i][2].v

Last(S) == CHOOSE i \in S : \A j \in S : j <= i

\* the i-th key of values has its new value after the update; a key that
\* was present has its last line rewritten where it stood and as many lines
\* as before, a key that was absent has one line behind the old ones
KeyUpdated(i) ==
    /\ \E n \in LinesOf(LinesAfter, data.v[i][1]) : LinesAfter[n] = NewLine(i)
    /\ Cardinality(LinesOf(LinesAfter, data.v[i][1])) =
           IF LinesOf(LinesBefore, data.v[i][1]) = {} THEN 1
           ELSE Cardinality(LinesOf(LinesBefore, data.v[i][1]))
    /\ IF LinesOf(LinesBefore, data.v[i][1]) = {}
       THEN Last(LinesOf(LinesAfter, data.v[i][1])) > Len(LinesBefore)
       ELSE LinesAfter[Last(LinesOf(LinesBefore, data.v[i][1]))] = NewLine(i)

\* C26: after _update_env_file(values) every key of values has a line with
\* its new value; a key that was present is rewritten where it stood and
\* has no more lines than before, so one line stays one line; a key that
\* was absent is appended; every other line stands where it stood; and the
\* same update applied again leaves the file as it is.
C26_EnvFileUpdated ==
    /\ (Ran("update_env_file") /\ exc = "none") =>
          /\ disk.files[EnvPath].text = out
          /\ out = Join(LinesAfter, <<"\n">>) \o <<"\n">>
          /\ \A i \in 1..Len(data.v) : KeyUpdated(i)
          /\ Len(LinesAfter) >= Len(LinesBefore)
          /\ \A n \in 1..Len(LinesBefore) :
                 env_key(LinesBefore[n]).v \notin ManagedKeys
                     => LinesAfter[n] = LinesBefore[n]
          /\ \A n \in (Len(LinesBefore) + 1)..Len(LinesAfter) :
                 LinesAfter[n] = <<>> \/ \E i \in 1..Len(data.v) : LinesAfter[n] = NewLine(i)
    /\ (Ran("update_env_again") /\ exc = "none") => disk.files[EnvPath].text = out

C26_Witness ==
    /\ Ran("update_env_again")
    /\ text = Chars("OTHER=1\nARX_A=old")
    /\ Len(data.v) = 2 /\ data.v[2][1] = Chars("ARX_B")
    /\ out = Chars("OTHER=1\nARX_A=new\n\nARX_B=two\n")
    /\ EnvPath \in DOMAIN disk.files /\ disk.files[EnvPath].text = out

\* C25: after a run of init, every bootstrap file and every template
\* destination that existed before the run holds what it held before.
C25_ExistingFilesKept ==
    Ran("init") =>
        \A p \in (BootstrapFiles \cup TemplateDestinations) \cap DOMAIN args.before.files :
            p \in DOMAIN disk.files /\ disk.files[p] = args.before.files[p]

====
